---- MODULE Spec2Model ----
(***************************************************************************)
(* zipserve: a ZIP archive assembled virtually from a Template.            *)
(*                                                                         *)
(* The state machines below share the variables.                           *)
(*   SpecMR   the byte-range composer (multiReaderAt) on its own: parts    *)
(*            are added, then the composed range is read at offsets.       *)
(*   Spec     NewArchive walking a Template: comment check, prefix, one    *)
(*            step per entry, central directory.                           *)
(*   SpecEnd  the end of writeCentralDirectory on its own, at the counts,  *)
(*            sizes and offsets where the zip64 end records come in.       *)
(*   SpecUTF8 NewArchive on Templates of one entry whose name, comment,    *)
(*            NonUTF8 and Flags vary.                                      *)
(*   SpecRead NewArchive on small Templates, then reads of the archive in  *)
(*            flight together, each taken one backing-source call at a     *)
(*            time.                                                        *)
(*   SpecSeek the sequential multireadseeker: parts are added to a         *)
(*            partsBuilder, the ReadSeeker is created, then sought and     *)
(*            read.                                                        *)
(*                                                                         *)
(* Go slices are 0-based; the sequences here are 1-based, so part index k  *)
(* of the source is element k+1 of mcr.parts.                              *)
(***************************************************************************)
EXTENDS Integers, Sequences, FiniteSets, TLC

VARIABLES
    mcr,        \* multiReaderAt: [parts: Seq([offset, data]), size]; in Spec, ar.parts
    added,      \* history: the (data, size) arguments of the add calls so far
    rd,         \* the last ReadAtContext call and what it returned, or NoRead
    panicked,   \* TRUE once a call has panicked
    t,          \* the Template handed to NewArchive; Entries are FileHeader pointers
    heap,       \* the FileHeader each pointer of the Template points to
    given,      \* history: heap as the caller handed it over
    pc,         \* where NewArchive is: "start", "entries", "done" ("idle": not called)
    idx,        \* the number of entries the loop of newArchive has gone through
    dir,        \* the directory accumulator: Seq([fh: pointer, offset])
    maxTime,    \* the maximum Modified seen so far
    etagHash,   \* what has been written to the MD5 hash, in order
    ret,        \* what NewArchive returned: [status, err, ar]
    call,       \* a function called on its own: [op, its arguments, out], or NoCall
    reads,      \* the reads of the archive in flight: one record per reader
    pb,         \* partsBuilder: [parts: Seq([offset, length, content]), offset]
    mrs,        \* multireadseeker: [parts, offset, partIndex, length, seekValid], or NoSeeker
    seekLog     \* history: where the last Seek went, the bytes read since, the last call

vars ==
    <<mcr, added, rd, panicked, t, heap, given, pc, idx, dir, maxTime, etagHash, ret,
      call, reads, pb, mrs, seekLog>>

seeker == <<pb, mrs, seekLog>>

(***************************************************************************)
(* Machine integers.  int64/uint64 values are four 16-bit limbs, least     *)
(* significant first, so that 0xFFFFFFFF and 2^63 are exact and additions  *)
(* wrap at 2^64 as they do in Go.                                          *)
(***************************************************************************)
Base == 256 * 256

Half == Base \div 2

\* The 64-bit value of a small natural number (below 2^31).
I64(k) == <<k % Base, (k \div Base) % Base, 0, 0>>

Zero64 == I64(0)

\* Two's complement of -1, the only negative literal the inputs use.
MinusOne64 == <<Base - 1, Base - 1, Base - 1, Base - 1>>

Add64(a, b) ==
    LET s1 == a[1] + b[1]
        s2 == a[2] + b[2] + (s1 \div Base)
        s3 == a[3] + b[3] + (s2 \div Base)
        s4 == a[4] + b[4] + (s3 \div Base)
    IN  <<s1 % Base, s2 % Base, s3 % Base, s4 % Base>>

Compl64(a) == <<Base - 1 - a[1], Base - 1 - a[2], Base - 1 - a[3], Base - 1 - a[4]>>

Sub64(a, b) == Add64(Add64(a, Compl64(b)), I64(1))

\* a < b as unsigned 64-bit values.
LtU64(a, b) ==
    \/ a[4] < b[4]
    \/ a[4] = b[4] /\ a[3] < b[3]
    \/ a[4] = b[4] /\ a[3] = b[3] /\ a[2] < b[2]
    \/ a[4] = b[4] /\ a[3] = b[3] /\ a[2] = b[2] /\ a[1] < b[1]

\* The sign bit of an int64.
IsNeg64(a) == a[4] >= Half

\* a < b as signed 64-bit values.
LtS64(a, b) ==
    IF IsNeg64(a) # IsNeg64(b) THEN IsNeg64(a) ELSE LtU64(a, b)

\* The natural number held by a small non-negative 64-bit value.
ToInt(a) == a[1] + a[2] * Base

IsSmall64(a) == a[4] = 0 /\ a[3] = 0 /\ a[2] < Half

(***************************************************************************)
(* Backing sources of the composer's parts.                                *)
(*   "bytes"  bytes.Reader over data (the tests' io.ReaderAt)              *)
(*   "err"    the tests' readWithError: copies data, returns its error     *)
(*   "same"   the tests' sameBytes: fills the buffer with one byte          *)
(*   "raw"    any other ReaderAt implementation: reports the count and the *)
(*            error it was built with, whatever it is asked                *)
(***************************************************************************)
NoErr == "nil"

EOF == "EOF"

Min(a, b) == IF a < b THEN a ELSE b

\* var pb partsBuilder
NewBuilder == [parts |-> <<>>, offset |-> 0]

\* No multireadseeker was created yet.
NoSeeker == [created |-> FALSE]

NoLog == [k |-> 0, out |-> <<>>, last |-> [op |-> "none"]]

\* The byte at 0-based position i of an encoded record.
BlobByte(i) == 1000 + i

\* ignoreContext{r}: an io.ReaderAt made a ReaderAt.
ignoreContext(r) == [kind |-> "ignoreContext", r |-> r]

\* A source asked for len bytes at in-part offset off (an int64):
\* the count it reports, its error, and the bytes it stored.
\* Kinds: "bytes" a bytes.Reader over data; "blob" a bytes.Reader over an
\* encoded record of size bytes; "err", "same", "raw" sources of the caller;
\* "ctx" a handle of the caller that implements ReadAtContext over r;
\* "ignoreContext" the wrapper, which calls r.ReadAt.
RECURSIVE SourceRead(_, _, _)
SourceRead(data, len, off) ==
    CASE data.kind \in {"ignoreContext", "ctx"} ->
            SourceRead(data.r, len, off)
      [] data.kind = "blob" ->
            IF IsNeg64(off)
            THEN [n |-> 0, err |-> "bytes.Reader.ReadAt: negative offset", bytes |-> <<>>]
            ELSE IF ~LtS64(off, I64(data.size))
            THEN [n |-> 0, err |-> EOF, bytes |-> <<>>]
            ELSE LET o == ToInt(off)
                     k == Min(len, data.size - o)
                 IN  [n |-> k,
                      err |-> IF k < len THEN EOF ELSE NoErr,
                      bytes |-> [j \in 1..k |-> BlobByte(o + j - 1)]]
      [] data.kind = "bytes" ->
            IF IsNeg64(off)
            THEN [n |-> 0, err |-> "bytes.Reader.ReadAt: negative offset", bytes |-> <<>>]
            ELSE IF ~LtS64(off, I64(Len(data.data)))
            THEN [n |-> 0, err |-> EOF, bytes |-> <<>>]
            ELSE LET o == ToInt(off)
                     k == Min(len, Len(data.data) - o)
                 IN  [n |-> k,
                      err |-> IF k < len THEN EOF ELSE NoErr,
                      bytes |-> SubSeq(data.data, o + 1, o + k)]
      [] data.kind = "err" ->
            LET k == Min(len, Len(data.data))
            IN  [n |-> k, err |-> data.err, bytes |-> SubSeq(data.data, 1, k)]
      [] data.kind = "same" ->
            [n |-> len, err |-> NoErr, bytes |-> [k \in 1..len |-> data.b]]
      [] data.kind = "raw" ->
            [n |-> data.n, err |-> data.err, bytes |-> <<>>]

(***************************************************************************)
(* multiReaderAt                                                           *)
(***************************************************************************)
EmptyMcr == [parts |-> <<>>, size |-> Zero64]

\* add panics on a negative size.
addPanics(size) == IsNeg64(size)

add(m, data, size) ==
    IF size = Zero64
    THEN m
    ELSE [parts |-> Append(m.parts, [offset |-> m.size, data |-> data]),
          size |-> Add64(m.size, size)]

\* partIndex is the source's 0-based index.
\* endOffset that takes the end of the whole range for the end of every part.
endOffsetOfRange(m, partIndex) ==
    m.size

endOffset(m, partIndex) ==
    IF partIndex = Len(m.parts) - 1
    THEN m.size
    ELSE m.parts[partIndex + 2].offset

\* sort.Search(len(parts), func(i) { return endOffset(i) > off }) from [i, j).
\* The search for the first part with endOffset(i) >= off.
RECURSIVE SearchAtOrAfter(_, _, _, _)
SearchAtOrAfter(m, off, i, j) ==
    IF i < j
    THEN LET h == (i + j) \div 2
         IN  IF LtS64(endOffset(m, h), off)
             THEN SearchAtOrAfter(m, off, h + 1, j)
             ELSE SearchAtOrAfter(m, off, i, h)
    ELSE i

RECURSIVE Search(_, _, _, _)
Search(m, off, i, j) ==
    IF i < j
    THEN LET h == (i + j) \div 2
         IN  IF ~LtS64(off, endOffset(m, h))
             THEN Search(m, off, h + 1, j)
             ELSE Search(m, off, i, h)
    ELSE i

Untouched == -1

\* buf with the bytes w copied in from 0-based position pos on.
CopyInto(buf, pos, w) ==
    [k \in 1..Len(buf) |->
        IF k > pos /\ k <= pos + Len(w) THEN w[k - pos] ELSE buf[k]]

\* No read has been made.
NoRead == [plen |-> -1]

\* What a read returns; calls lists the backing-source calls it made, in order.
Result(n, err, buf, calls, panic) ==
    [n |-> n, err |-> err, buf |-> buf, calls |-> calls, panic |-> panic]

\* After the loop: bytes still wanted means the read went beyond size.
\* The loop exit that reports io.EOF also when the buffer was filled.
LoopExitAlwaysEOF(plen, st) ==
    Result(st.n, EOF, st.buf, st.calls, FALSE)

LoopExit(plen, st) ==
    Result(st.n, IF plen > 0 THEN EOF ELSE NoErr, st.buf, st.calls, FALSE)

\* n += n2, then the return on a source's error.
\* The error return that leaves out the bytes the failing source reported.
ErrReturnWithoutLastCount(st, r, buf, calls) ==
    Result(st.n, r.err, buf, calls, FALSE)

ErrReturn(st, r, buf, calls) ==
    Result(st.n + r.n, r.err, buf, calls, FALSE)

\* The for loop of ReadAtContext.  plen is len(p), pos the number of bytes p has
\* been advanced by, st the running [n, buf, calls].  p[0:sizeToRead] panics on
\* a negative sizeToRead and p[n2:] on an n2 outside 0..len(p).
RECURSIVE ReadLoop(_, _, _, _, _, _, _)
ReadLoop(m, firstPartIndex, partIndex, plen, pos, off, st) ==
    IF ~(partIndex < Len(m.parts) /\ plen > 0)
    THEN LoopExit(plen, st)
    ELSE LET part == m.parts[partIndex + 1]
             off1 == IF partIndex > firstPartIndex THEN part.offset ELSE off
             partRemainingBytes == Sub64(endOffset(m, partIndex), off1)
             sizeToRead == IF LtS64(partRemainingBytes, I64(plen))
                           THEN partRemainingBytes ELSE I64(plen)
             inOff == Sub64(off1, part.offset)
         IN  IF IsNeg64(sizeToRead)
             THEN Result(st.n, NoErr, st.buf, st.calls, TRUE)
             ELSE LET len == ToInt(sizeToRead)
                      r == SourceRead(part.data, len, inOff)
                      buf2 == CopyInto(st.buf, pos, r.bytes)
                      calls2 == Append(st.calls,
                                  [part |-> partIndex, off |-> inOff, len |-> len,
                                   n |-> r.n, err |-> r.err])
                  IN  IF r.err # NoErr
                      THEN ErrReturn(st, r, buf2, calls2)
                      ELSE IF r.n < 0 \/ r.n > plen
                      THEN Result(st.n + r.n, NoErr, buf2, calls2, TRUE)
                      ELSE ReadLoop(m, firstPartIndex, partIndex + 1,
                                    plen - r.n, pos + r.n, off1,
                                    [n |-> st.n + r.n, buf |-> buf2, calls |-> calls2])

\* ReadAtContext(ctx, p, off) with len(p) = plen.
\* ReadAtContext without the early return for an empty buffer.
ReadAtContextNoEmptyCheck(m, plen, off) ==
    LET buf0 == [k \in 1..plen |-> Untouched]
    IN  IF ~LtS64(off, m.size)
        THEN Result(0, EOF, buf0, <<>>, FALSE)
        ELSE LET firstPartIndex == Search(m, off, 0, Len(m.parts))
             IN  ReadLoop(m, firstPartIndex, firstPartIndex, plen, 0, off,
                          [n |-> 0, buf |-> buf0, calls |-> <<>>])

ReadAtContext(m, plen, off) ==
    LET buf0 == [k \in 1..plen |-> Untouched]
    IN  IF plen = 0
        THEN Result(0, NoErr, buf0, <<>>, FALSE)
        ELSE IF ~LtS64(off, m.size)
        THEN Result(0, EOF, buf0, <<>>, FALSE)
        ELSE LET firstPartIndex == Search(m, off, 0, Len(m.parts))
             IN  ReadLoop(m, firstPartIndex, firstPartIndex, plen, 0, off,
                          [n |-> 0, buf |-> buf0, calls |-> <<>>])

(***************************************************************************)
(* ReadAtContext one backing-source call at a time, for reads in flight    *)
(* together.  A read is a record whose pc is "loop" at the head of the for *)
(* loop, "source" inside the ReadAtContext of a part's source, and "done"  *)
(* once it has returned n, err (or panicked).                              *)
(***************************************************************************)
MaxReads == 2

Readers == 1..MaxReads

Idle == [pc |-> "idle"]

NoReads == [i \in Readers |-> Idle]

\* The context of reader i, no context at all, and context.TODO().
Ctx(i) == <<"ctx", i>>

NoContext == <<"none", 0>>

TODO == <<"TODO", 0>>

\* The context the source behind a part is called with.
\* The composer handing context.TODO() to the part instead of its own context.
HandedTODO(data, ctx) ==
    IF data.kind = "ignoreContext" THEN NoContext ELSE TODO

Handed(data, ctx) ==
    IF data.kind = "ignoreContext" THEN NoContext ELSE ctx

\* ReadAtContext(ctx, p, off) up to the for loop.
ReadBegin(m, ctx, plen, off) ==
    LET r == [pc |-> "loop", ctx |-> ctx, plen |-> plen, off |-> off,
              firstPartIndex |-> 0, partIndex |-> 0, rem |-> plen, pos |-> 0,
              at |-> off, pend |-> <<>>, n |-> 0,
              buf |-> [k \in 1..plen |-> Untouched], calls |-> <<>>,
              err |-> NoErr, panic |-> FALSE]
    IN  IF plen = 0
        THEN [r EXCEPT !.pc = "done"]
        ELSE IF ~LtS64(off, m.size)
        THEN [r EXCEPT !.pc = "done", !.err = EOF]
        ELSE [r EXCEPT !.firstPartIndex = Search(m, off, 0, Len(m.parts)),
                       !.partIndex = Search(m, off, 0, Len(m.parts))]

\* The condition of the for loop: rem is len(p).
InLoop(m, r) == r.partIndex < Len(m.parts) /\ r.rem > 0

\* The return after the loop.
ReadExit(r) ==
    [r EXCEPT !.pc = "done", !.err = IF r.rem > 0 THEN EOF ELSE NoErr]

\* off at the head of the loop body, for the part the loop is at.
LoopOffset(r, part) ==
    IF r.partIndex > r.firstPartIndex THEN part.offset ELSE r.at

\* sizeToRead for len(p) = rem.
SizeToRead(rem, partRemainingBytes) ==
    IF LtS64(partRemainingBytes, I64(rem)) THEN partRemainingBytes ELSE I64(rem)

\* From the head of the loop body to the call of the part's source at the
\* in-part offset inOff = off - part.offset.
ReadIssue(r, part, off, inOff, sizeToRead) ==
    IF IsNeg64(sizeToRead)
    THEN [r EXCEPT !.pc = "done", !.panic = TRUE]
    ELSE [r EXCEPT !.pc = "source", !.at = off,
                   !.pend = [part |-> r.partIndex,
                             ctx |-> Handed(part.data, r.ctx),
                             off |-> inOff,
                             len |-> ToInt(sizeToRead)]]

\* What the source read r is in returns.
SourceReturns(m, r) ==
    SourceRead(m.parts[r.partIndex + 1].data, r.pend.len, r.pend.off)

\* From the return n2 = s.n, err2 = s.err of the part's source to the head of
\* the loop.
\* The step that leaves p where it was instead of p = p[n2:].
ReadResumeKeepingP(m, r, s) ==
    LET r2 == [r EXCEPT !.n = @ + s.n,
                        !.buf = CopyInto(@, r.pos, s.bytes),
                        !.calls = Append(@, [part |-> r.pend.part, ctx |-> r.pend.ctx,
                                             off |-> r.pend.off, len |-> r.pend.len,
                                             n |-> s.n, err |-> s.err]),
                        !.pend = <<>>]
    IN  IF s.err # NoErr
        THEN [r2 EXCEPT !.pc = "done", !.err = s.err]
        ELSE IF s.n < 0 \/ s.n > r.rem
        THEN [r2 EXCEPT !.pc = "done", !.panic = TRUE]
        ELSE [r2 EXCEPT !.pc = "loop", !.partIndex = @ + 1]

ReadResume(m, r, s) ==
    LET r2 == [r EXCEPT !.n = @ + s.n,
                        !.buf = CopyInto(@, r.pos, s.bytes),
                        !.calls = Append(@, [part |-> r.pend.part, ctx |-> r.pend.ctx,
                                             off |-> r.pend.off, len |-> r.pend.len,
                                             n |-> s.n, err |-> s.err]),
                        !.pend = <<>>]
    IN  IF s.err # NoErr
        THEN [r2 EXCEPT !.pc = "done", !.err = s.err]
        ELSE IF s.n < 0 \/ s.n > r.rem
        THEN [r2 EXCEPT !.pc = "done", !.panic = TRUE]
        ELSE [r2 EXCEPT !.pc = "loop", !.partIndex = @ + 1,
                        !.rem = @ - s.n, !.pos = @ + s.n]

(***************************************************************************)
(* Byte strings (names, comments, extra fields) are run-length encoded: a  *)
(* sequence of runs [b, n], n >= 1, adjacent runs of different bytes, so   *)
(* that a 65536-byte string is one run and equal strings are equal values. *)
(***************************************************************************)
Rep(b, n) == IF n = 0 THEN <<>> ELSE <<[b |-> b, n |-> n]>>

Cat(s, u) ==
    IF s = <<>> THEN u
    ELSE IF u = <<>> THEN s
    ELSE IF s[Len(s)].b = u[1].b
    THEN SubSeq(s, 1, Len(s) - 1)
         \o <<[b |-> u[1].b, n |-> s[Len(s)].n + u[1].n]>>
         \o Tail(u)
    ELSE s \o u

\* The string of the bytes of a sequence.
RECURSIVE Str(_)
Str(bytes) ==
    IF bytes = <<>> THEN <<>> ELSE Cat(Rep(Head(bytes), 1), Str(Tail(bytes)))

\* len(s)
RECURSIVE StrLen(_)
StrLen(s) == IF s = <<>> THEN 0 ELSE s[1].n + StrLen(Tail(s))

\* s[k:]
RECURSIVE Drop(_, _)
Drop(s, k) ==
    IF k = 0 \/ s = <<>> THEN s
    ELSE IF s[1].n > k THEN <<[b |-> s[1].b, n |-> s[1].n - k]>> \o Tail(s)
    ELSE Drop(Tail(s), k - s[1].n)

\* The first k bytes of s (fewer when s is shorter), as a plain sequence.
RECURSIVE Take(_, _)
Take(s, k) ==
    IF k = 0 \/ s = <<>> THEN <<>>
    ELSE <<s[1].b>> \o Take(Drop(s, 1), k - 1)

\* strings.HasSuffix(s, "/")
Slash == 47

HasSuffixSlash(s) == s # <<>> /\ s[Len(s)].b = Slash

(***************************************************************************)
(* Constants of the format (struct.go).                                    *)
(***************************************************************************)
Store == 0
Deflate == 8
fileHeaderLen == 30
directoryHeaderLen == 46
directoryEndLen == 22
dataDescriptorLen == 16
dataDescriptor64Len == 24
directory64LocLen == 20
directory64EndLen == 56
extTimeExtraLen == 9
zipVersion20 == 20
zipVersion45 == 45
uint16max == 65535
zip64ExtraID == 1
extTimeExtraID == 21589
maxUint16 == 65535

fileHeaderSignature == 67324752
directoryHeaderSignature == 33639248
directoryEndSignature == 101010256
directory64LocSignature == 117853008
directory64EndSignature == 101075792
dataDescriptorSignature == 134695760

uint32max == <<Base - 1, Base - 1, 0, 0>>

\* uint32(v) and uint16(k)
U32(v) == <<v[1], v[2], 0, 0>>

U16(k) == k % Base

\* v >= w as uint64 values
GeqU64(v, w) == ~LtU64(v, w)

\* Bits of a 16-bit flags word; bit is a power of two.
HasBit(f, bit) == (f \div bit) % 2 = 1

SetBit(f, bit) == IF HasBit(f, bit) THEN f ELSE f + bit

ClearBit(f, bit) == IF HasBit(f, bit) THEN f - bit ELSE f

FlagUTF8 == 2048

FlagDataDescriptor == 8

(***************************************************************************)
(* detectUTF8                                                              *)
(***************************************************************************)
RuneError == 65533

IsCont(b) == b >= 128 /\ b <= 191

\* utf8.DecodeRuneInString on the first bytes of a string (at most four are
\* looked at): the rune and its size.
DecodeRune(p) ==
    LET n == Len(p)
        b0 == p[1]
        bad == [r |-> RuneError, size |-> 1]
        lo == IF b0 = 224 THEN 160 ELSE IF b0 = 240 THEN 144 ELSE 128
        hi == IF b0 = 237 THEN 159 ELSE IF b0 = 244 THEN 143 ELSE 191
    IN  IF b0 < 128 THEN [r |-> b0, size |-> 1]
        ELSE IF b0 < 194 \/ b0 > 244 THEN bad
        ELSE IF n < 2 \/ p[2] < lo \/ p[2] > hi THEN bad
        ELSE IF b0 < 224
        THEN [r |-> (b0 % 32) * 64 + (p[2] % 64), size |-> 2]
        ELSE IF n < 3 \/ ~IsCont(p[3]) THEN bad
        ELSE IF b0 < 240
        THEN [r |-> (b0 % 16) * 4096 + (p[2] % 64) * 64 + (p[3] % 64), size |-> 3]
        ELSE IF n < 4 \/ ~IsCont(p[4]) THEN bad
        ELSE [r |-> (b0 % 8) * 262144 + (p[2] % 64) * 4096 + (p[3] % 64) * 64
                    + (p[4] % 64),
              size |-> 4]

\* utf8.ValidRune
ValidRune(r) == (0 <= r /\ r < 55296) \/ (57343 < r /\ r <= 1114111)

\* r < 0x20 || r > 0x7d || r == 0x5c
Suspect(r) == r < 32 \/ r > 125 \/ r = 92

\* The loop of detectUTF8 from the rest s of the string on; a run of one ASCII
\* byte is a run of equal one-byte runes and is taken in one step.
RECURSIVE DetectLoop(_, _)
DetectLoop(s, require) ==
    IF s = <<>> THEN [valid |-> TRUE, require |-> require]
    ELSE IF s[1].b < 128
    THEN DetectLoop(Tail(s), require \/ Suspect(s[1].b))
    ELSE LET d == DecodeRune(Take(s, 4))
         IN  IF Suspect(d.r)
             THEN IF ~ValidRune(d.r) \/ (d.r = RuneError /\ d.size = 1)
                  THEN [valid |-> FALSE, require |-> FALSE]
                  ELSE DetectLoop(Drop(s, d.size), TRUE)
             ELSE DetectLoop(Drop(s, d.size), require)

detectUTF8(s) == DetectLoop(s, FALSE)

(***************************************************************************)
(* time.Time values: the instant as int64 Unix seconds with the calendar   *)
(* fields time.Time reports for it (UTC).                                  *)
(***************************************************************************)
Time(unix, year, month, day, hour, minute, second) ==
    [unix |-> unix, year |-> year, month |-> month, day |-> day,
     hour |-> hour, minute |-> minute, second |-> second]

\* The zero Time: January 1, year 1, 00:00:00 UTC.
ZeroTime == Time(<<2304, 34926, 65521, 65535>>, 1, 1, 1, 0, 0, 0)

IsZero(tm) == tm.unix = ZeroTime.unix

\* a.Before(b)
Before(a, b) == LtS64(a.unix, b.unix)

\* a.After(b)
After(a, b) == LtS64(b.unix, a.unix)

\* timeToMsDosTime that keeps the seconds whole.
timeToMsDosTimeWholeSeconds(tm) ==
    [fDate |-> U16(tm.day + tm.month * 32 + (tm.year - 1980) * 512),
     fTime |-> U16(tm.second + tm.minute * 32 + tm.hour * 2048)]

timeToMsDosTime(tm) ==
    [fDate |-> U16(tm.day + tm.month * 32 + (tm.year - 1980) * 512),
     fTime |-> U16(tm.second \div 2 + tm.minute * 32 + tm.hour * 2048)]

(***************************************************************************)
(* FileHeader and the encoders of writer.go.  An encoded record is kept as *)
(* its fields, in the order written, with the strings that follow them.    *)
(***************************************************************************)
\* isZip64 that takes only sizes above 0xFFFFFFFF for zip64.
isZip64AboveOnly(h) ==
    LtU64(uint32max, h.CompressedSize64) \/ LtU64(uint32max, h.UncompressedSize64)

isZip64(h) ==
    GeqU64(h.CompressedSize64, uint32max) \/ GeqU64(h.UncompressedSize64, uint32max)

\* The 9-byte extended timestamp block of prepareEntry.
ExtTimeBlock(tm) ==
    LET mt == U32(tm.unix)
    IN  Str(<<extTimeExtraID % 256, extTimeExtraID \div 256, 5, 0, 1,
              mt[1] % 256, mt[1] \div 256, mt[2] % 256, mt[2] \div 256>>)

\* The flag switch that does not look at NonUTF8.
PrepareFlagsWhateverNonUTF8(h) ==
    LET d1 == detectUTF8(h.Name)
        d2 == detectUTF8(h.Comment)
    IN  IF (d1.require \/ d2.require) /\ (d1.valid /\ d2.valid)
        THEN SetBit(h.Flags, FlagUTF8)
        ELSE h.Flags

\* The flag switch that looks at the name only.
PrepareFlagsNameOnly(h) ==
    LET d1 == detectUTF8(h.Name)
    IN  IF h.NonUTF8 THEN ClearBit(h.Flags, FlagUTF8)
        ELSE IF d1.require /\ d1.valid
        THEN SetBit(h.Flags, FlagUTF8)
        ELSE h.Flags

\* The UTF-8 flag switch of prepareEntry.
PrepareFlags(h) ==
    LET d1 == detectUTF8(h.Name)
        d2 == detectUTF8(h.Comment)
    IN  IF h.NonUTF8 THEN ClearBit(h.Flags, FlagUTF8)
        ELSE IF (d1.require \/ d2.require) /\ (d1.valid /\ d2.valid)
        THEN SetBit(h.Flags, FlagUTF8)
        ELSE h.Flags

\* prepareEntry without the directory special case.
PrepareDirAsFile(h) ==
    [h EXCEPT !.Flags = SetBit(@, FlagDataDescriptor)]

\* The directory special case of prepareEntry.
PrepareDir(h) ==
    IF HasSuffixSlash(h.Name)
    THEN [h EXCEPT !.Method = Store,
                   !.Flags = ClearBit(@, FlagDataDescriptor),
                   !.CompressedSize64 = Zero64,
                   !.UncompressedSize64 = Zero64]
    ELSE [h EXCEPT !.Flags = SetBit(@, FlagDataDescriptor)]

prepareEntry(h) ==
    PrepareDir([h EXCEPT
        !.Flags = PrepareFlags(h),
        !.CreatorVersion = (h.CreatorVersion \div 256) * 256 + zipVersion20,
        !.ReaderVersion = zipVersion20,
        !.Extra = Cat(h.Extra, ExtTimeBlock(h.Modified))])

errLongName == "zip: FileHeader.Name too long"

errLongExtra == "zip: FileHeader.Extra too long"

\* writeHeader with the length of Extra checked before that of Name.
writeHeaderExtraFirst(h) ==
    IF StrLen(h.Extra) > maxUint16 THEN [err |-> errLongExtra]
    ELSE IF StrLen(h.Name) > maxUint16 THEN [err |-> errLongName]
    ELSE LET dos == timeToMsDosTime(h.Modified)
         IN  [err |-> NoErr,
              blob |-> [kind |-> "header",
                        signature |-> fileHeaderSignature,
                        ReaderVersion |-> h.ReaderVersion,
                        Flags |-> h.Flags,
                        Method |-> h.Method,
                        modifiedTime |-> dos.fTime,
                        modifiedDate |-> dos.fDate,
                        crc32 |-> 0,
                        compressedSize |-> Zero64,
                        uncompressedSize |-> Zero64,
                        nameLen |-> U16(StrLen(h.Name)),
                        extraLen |-> U16(StrLen(h.Extra)),
                        Name |-> h.Name,
                        Extra |-> h.Extra]]

\* writeHeader into a bytes.Buffer: the error, or the local file header.
writeHeader(h) ==
    IF StrLen(h.Name) > maxUint16 THEN [err |-> errLongName]
    ELSE IF StrLen(h.Extra) > maxUint16 THEN [err |-> errLongExtra]
    ELSE LET dos == timeToMsDosTime(h.Modified)
         IN  [err |-> NoErr,
              blob |-> [kind |-> "header",
                        signature |-> fileHeaderSignature,
                        ReaderVersion |-> h.ReaderVersion,
                        Flags |-> h.Flags,
                        Method |-> h.Method,
                        modifiedTime |-> dos.fTime,
                        modifiedDate |-> dos.fDate,
                        crc32 |-> 0,
                        compressedSize |-> Zero64,
                        uncompressedSize |-> Zero64,
                        nameLen |-> U16(StrLen(h.Name)),
                        extraLen |-> U16(StrLen(h.Extra)),
                        Name |-> h.Name,
                        Extra |-> h.Extra]]

\* The fields of a data descriptor in the order written, with their widths in
\* bytes: w is the width of the two sizes.
DescriptorLayout(w) ==
    <<[field |-> "signature", width |-> 4], [field |-> "crc32", width |-> 4],
      [field |-> "compressedSize", width |-> w],
      [field |-> "uncompressedSize", width |-> w]>>

\* makeDataDescriptor that takes every descriptor to be 16 bytes long.
makeDataDescriptorShort(h) ==
    [fh |-> IF isZip64(h) THEN [h EXCEPT !.ReaderVersion = zipVersion45] ELSE h,
     blob |-> [kind |-> "descriptor",
               signature |-> dataDescriptorSignature,
               crc32 |-> h.CRC32,
               len |-> dataDescriptorLen,
               compressedSize |->
                   IF isZip64(h) THEN h.CompressedSize64 ELSE U32(h.CompressedSize64),
               uncompressedSize |->
                   IF isZip64(h) THEN h.UncompressedSize64 ELSE U32(h.UncompressedSize64),
               layout |-> DescriptorLayout(IF isZip64(h) THEN 8 ELSE 4)]]

\* makeDataDescriptor: the descriptor and the header it leaves behind.
makeDataDescriptor(h) ==
    [fh |-> IF isZip64(h) THEN [h EXCEPT !.ReaderVersion = zipVersion45] ELSE h,
     blob |-> [kind |-> "descriptor",
               signature |-> dataDescriptorSignature,
               crc32 |-> h.CRC32,
               len |-> IF isZip64(h) THEN dataDescriptor64Len ELSE dataDescriptorLen,
               compressedSize |->
                   IF isZip64(h) THEN h.CompressedSize64 ELSE U32(h.CompressedSize64),
               uncompressedSize |->
                   IF isZip64(h) THEN h.UncompressedSize64 ELSE U32(h.UncompressedSize64),
               layout |-> DescriptorLayout(IF isZip64(h) THEN 8 ELSE 4)]]

\* The 28-byte zip64 extra block of a directory record.
Zip64Block(h, offset) ==
    [id |-> zip64ExtraID, size |-> 24,
     uncompressedSize |-> h.UncompressedSize64,
     compressedSize |-> h.CompressedSize64,
     offset |-> offset]

Zip64BlockLen == 28

\* The bytes of a zip64 extra block, least significant byte first.
Bytes64(v) ==
    <<v[1] % 256, v[1] \div 256, v[2] % 256, v[2] \div 256,
      v[3] % 256, v[3] \div 256, v[4] % 256, v[4] \div 256>>

Zip64BlockBytes(blk) ==
    Str(<<blk.id % 256, blk.id \div 256, blk.size % 256, blk.size \div 256>>
        \o Bytes64(blk.uncompressedSize)
        \o Bytes64(blk.compressedSize)
        \o Bytes64(blk.offset))

\* The directory record of header h at offset; z tells whether the zip64
\* block was appended to h.Extra before.
DirectoryHeader(h, offset, z, dos) ==
    [signature |-> directoryHeaderSignature,
     CreatorVersion |-> h.CreatorVersion,
     ReaderVersion |-> h.ReaderVersion,
     Flags |-> h.Flags,
     Method |-> h.Method,
     modifiedTime |-> dos.fTime,
     modifiedDate |-> dos.fDate,
     crc32 |-> h.CRC32,
     compressedSize |-> IF z THEN uint32max ELSE U32(h.CompressedSize64),
     uncompressedSize |-> IF z THEN uint32max ELSE U32(h.UncompressedSize64),
     zip64 |-> z,
     nameLen |-> U16(StrLen(h.Name)),
     extraLen |-> U16(StrLen(h.Extra)),
     commentLen |-> U16(StrLen(h.Comment)),
     ExternalAttrs |-> h.ExternalAttrs,
     offset |-> IF LtU64(uint32max, offset) THEN uint32max ELSE U32(offset),
     Name |-> h.Name,
     Extra |-> h.Extra,
     Comment |-> h.Comment]

\* h.Extra = append(h.Extra, buf[:]...) when the record needs zip64.
AppendZip64(h, offset, z) ==
    IF z
    THEN [h EXCEPT !.Extra = Cat(@, Zip64BlockBytes(Zip64Block(h, offset)))]
    ELSE h

\* The zip64 condition of a record that looks at the sizes only.
NeedsZip64SizesOnly(h, offset) == isZip64(h)

NeedsZip64(h, offset) == isZip64(h) \/ GeqU64(offset, uint32max)

\* One pass of the loop of writeCentralDirectory over header h at offset:
\* the header with what the pass appended to Extra, and the record written.
DirectoryRecord(h, offset) ==
    [fh |-> AppendZip64(h, offset, NeedsZip64(h, offset)),
     rec |-> DirectoryHeader(AppendZip64(h, offset, NeedsZip64(h, offset)), offset,
                             NeedsZip64(h, offset), timeToMsDosTime(h.Modified))]

\* The bytes one directory record puts on the countWriter.
RecordLen(rec) ==
    directoryHeaderLen + StrLen(rec.Name) + StrLen(rec.Extra) + StrLen(rec.Comment)

\* The loop of writeCentralDirectory from element k of dir on.  hp maps the
\* FileHeader pointers to their values; recs and count accumulate.
RECURSIVE DirectoryLoop(_, _, _, _, _)
RECURSIVE DirectoryNext(_, _, _, _, _, _)
DirectoryLoop(hdrs, k, hp, recs, count) ==
    IF k > Len(hdrs) THEN [heap |-> hp, recs |-> recs, count |-> count]
    ELSE DirectoryNext(hdrs, k, hp, recs, count,
                       DirectoryRecord(hp[hdrs[k].fh], hdrs[k].offset))

\* The loop step that puts each record in front of those written before.
DirectoryNextInFront(hdrs, k, hp, recs, count, d) ==
    DirectoryLoop(hdrs, k + 1, [hp EXCEPT ![hdrs[k].fh] = d.fh],
                  <<d.rec>> \o recs, count + RecordLen(d.rec))

DirectoryNext(hdrs, k, hp, recs, count, d) ==
    DirectoryLoop(hdrs, k + 1, [hp EXCEPT ![hdrs[k].fh] = d.fh],
                  Append(recs, d.rec), count + RecordLen(d.rec))

\* The locator pointing at the start of the directory records.
Directory64EndAtStart(start, size) == start

\* end := uint64(start) + size, the offset the zip64 end record is written at:
\* size bytes of records follow the start of the directory.
Directory64End(start, size) == Add64(start, size)

\* The writes that follow the directory records, in order, with their lengths:
\* the zip64 end record and its locator share one buffer and one Write.
WrittenAfterRecords(z) ==
    (IF z
     THEN <<[record |-> "directory64End", len |-> directory64EndLen],
            [record |-> "directory64Loc", len |-> directory64LocLen]>>
     ELSE <<>>)
    \o <<[record |-> "directoryEnd", len |-> directoryEndLen]>>

\* The end records with the entry count compared by > instead of >=.
EndRecordsAbove(records, size, offset, comment) ==
    LET z == \/ LtU64(I64(uint16max), records)
             \/ GeqU64(size, uint32max)
             \/ GeqU64(offset, uint32max)
    IN  [zip64 |-> z,
         end64 |-> IF z
                   THEN <<[signature |-> directory64EndSignature,
                           length |-> directory64EndLen - 12,
                           versionMadeBy |-> zipVersion45,
                           versionNeeded |-> zipVersion45,
                           records |-> records,
                           size |-> size,
                           offset |-> offset]>>
                   ELSE <<>>,
         loc64 |-> IF z
                   THEN <<[signature |-> directory64LocSignature,
                           offset |-> Directory64End(offset, size),
                           disks |-> 1]>>
                   ELSE <<>>,
         end |-> [signature |-> directoryEndSignature,
                  records |-> IF z THEN uint16max ELSE ToInt(records) % Base,
                  size |-> IF z THEN uint32max ELSE U32(size),
                  offset |-> IF z THEN uint32max ELSE U32(offset),
                  commentLen |-> U16(StrLen(comment))],
         comment |-> comment,
         written |-> WrittenAfterRecords(z),
         len |-> (IF z THEN directory64EndLen + directory64LocLen ELSE 0)
                 + directoryEndLen + StrLen(comment)]

\* The end of writeCentralDirectory: the zip64 end record and locator when
\* needed, and the end record.  records, size and offset are uint64.
EndRecords(records, size, offset, comment) ==
    LET z == \/ GeqU64(records, I64(uint16max))
             \/ GeqU64(size, uint32max)
             \/ GeqU64(offset, uint32max)
    IN  [zip64 |-> z,
         end64 |-> IF z
                   THEN <<[signature |-> directory64EndSignature,
                           length |-> directory64EndLen - 12,
                           versionMadeBy |-> zipVersion45,
                           versionNeeded |-> zipVersion45,
                           records |-> records,
                           size |-> size,
                           offset |-> offset]>>
                   ELSE <<>>,
         loc64 |-> IF z
                   THEN <<[signature |-> directory64LocSignature,
                           offset |-> Directory64End(offset, size),
                           disks |-> 1]>>
                   ELSE <<>>,
         end |-> [signature |-> directoryEndSignature,
                  records |-> IF z THEN uint16max ELSE ToInt(records) % Base,
                  size |-> IF z THEN uint32max ELSE U32(size),
                  offset |-> IF z THEN uint32max ELSE U32(offset),
                  commentLen |-> U16(StrLen(comment))],
         comment |-> comment,
         written |-> WrittenAfterRecords(z),
         len |-> (IF z THEN directory64EndLen + directory64LocLen ELSE 0)
                 + directoryEndLen + StrLen(comment)]

\* What writeCentralDirectory leaves: the headers, and the directory written.
DirectoryBlob(l, e) ==
    [heap |-> l.heap,
     blob |-> [kind |-> "directory",
               records |-> l.recs,
               end |-> e,
               len |-> l.count + e.len]]

DirectoryEnd(l, start, n, comment) ==
    DirectoryBlob(l, EndRecords(I64(n), I64(l.count), start, comment))

\* writeCentralDirectory(start, dir, w, comment, nil) into a bytes.Buffer; hp
\* maps the FileHeader pointers of dir to their values.
writeCentralDirectory(start, hdrs, hp, comment) ==
    DirectoryEnd(DirectoryLoop(hdrs, 1, hp, <<>>, 0), start, Len(hdrs), comment)

\* Size() of the bytes.Reader that bufferView returns for a record.
BlobSize(blob) ==
    CASE blob.kind = "header" ->
            fileHeaderLen + StrLen(blob.Name) + StrLen(blob.Extra)
      [] blob.kind = "descriptor" -> blob.len
      [] blob.kind = "directory" -> blob.len

\* mcr.addSizeReaderAt(r) for the reader over an encoded record.
addSizeReaderAt(m, blob) ==
    add(m, ignoreContext([kind |-> "blob", blob |-> blob, size |-> BlobSize(blob)]),
        I64(BlobSize(blob)))

(***************************************************************************)
(* newArchive, one step at a time.                                         *)
(***************************************************************************)
NilReader == [kind |-> "nil"]

\* readerAt(r): r itself when it implements ReadAtContext, else ignoreContext{r}.
readerAt(r) == IF r.kind = "ctx" THEN r ELSE ignoreContext(r)

NoCall == [op |-> "none"]

NoArchive == [nil |-> TRUE]

Returned(status, err, ar) == [status |-> status, err |-> err, ar |-> ar]

NotReturned == Returned("running", NoErr, NoArchive)

errComment == "comment too long"

errDirContent == "directory entry non-nil content"

errEmptyNonzero == "empty entry with nonzero length"

\* How a pass of the loop over t.Entries ends ("next": on to the following
\* entry) and what it leaves behind.
PassEnd(status, err, m, hp, offset, hashed) ==
    [status |-> status, err |-> err, m |-> m, heap |-> hp,
     offset |-> offset, hashed |-> hashed]

\* The pass that also writes the content handle to the hash.
PassDescriptorHashingContent(m, hp, p, offset, blob, dd) ==
    PassEnd("next", NoErr, addSizeReaderAt(m, dd.blob),
            [hp EXCEPT ![p] = dd.fh], offset, <<blob, hp[p].Content, dd.blob>>)

\* The data descriptor of a file entry, after its content.
PassDescriptor(m, hp, p, offset, blob, dd) ==
    PassEnd("next", NoErr, addSizeReaderAt(m, dd.blob),
            [hp EXCEPT ![p] = dd.fh], offset, <<blob, dd.blob>>)

\* The pass without the check of the size of an entry without content.
PassContentNoSizeCheck(m, hp, p, h, offset, blob) ==
    IF HasSuffixSlash(h.Name)
    THEN IF h.Content # NilReader
         THEN PassEnd("error", errDirContent, m, hp, offset, <<blob>>)
         ELSE PassEnd("next", NoErr, m, hp, offset, <<blob>>)
    ELSE IF h.Content # NilReader
    THEN IF addPanics(h.CompressedSize64)
         THEN PassEnd("panic", NoErr, m, hp, offset, <<blob>>)
         ELSE PassDescriptor(add(m, readerAt(h.Content), h.CompressedSize64), hp, p,
                             offset, blob, makeDataDescriptor(h))
    ELSE PassDescriptor(m, hp, p, offset, blob, makeDataDescriptor(h))

\* After the local header has been added: the directory check, the content.
PassContent(m, hp, p, h, offset, blob) ==
    IF HasSuffixSlash(h.Name)
    THEN IF h.Content # NilReader
         THEN PassEnd("error", errDirContent, m, hp, offset, <<blob>>)
         ELSE PassEnd("next", NoErr, m, hp, offset, <<blob>>)
    ELSE IF h.Content # NilReader
    THEN IF addPanics(h.CompressedSize64)
         THEN PassEnd("panic", NoErr, m, hp, offset, <<blob>>)
         ELSE PassDescriptor(add(m, readerAt(h.Content), h.CompressedSize64), hp, p,
                             offset, blob, makeDataDescriptor(h))
    ELSE IF h.CompressedSize64 # Zero64
    THEN PassEnd("error", errEmptyNonzero, m, hp, offset, <<blob>>)
    ELSE PassDescriptor(m, hp, p, offset, blob, makeDataDescriptor(h))

\* After prepareEntry: the local header.
\* The pass that takes the entry's offset after its local header was added.
PassHeaderOffsetAfter(m, hp, p, h, w) ==
    IF w.err # NoErr
    THEN PassEnd("error", w.err, m, hp, m.size, <<>>)
    ELSE PassContent(addSizeReaderAt(m, w.blob), hp, p, h,
                     addSizeReaderAt(m, w.blob).size, w.blob)

PassHeader(m, hp, p, h, w) ==
    IF w.err # NoErr
    THEN PassEnd("error", w.err, m, hp, m.size, <<>>)
    ELSE PassContent(addSizeReaderAt(m, w.blob), hp, p, h, m.size, w.blob)

PassPrepared(m, hp, p, h) ==
    PassHeader(m, [hp EXCEPT ![p] = h], p, h, writeHeader(h))

\* One pass of the loop over t.Entries, for the FileHeader at pointer p.
EntryPass(m, hp, p) == PassPrepared(m, hp, p, prepareEntry(hp[p]))

\* The start with a comment check that also rejects 65535 bytes.
NAStartOffByOne ==
    /\ pc = "start"
    /\ IF StrLen(t.Comment) >= uint16max
       THEN /\ pc' = "done"
            /\ ret' = Returned("error", errComment, NoArchive)
            /\ UNCHANGED <<mcr, etagHash, panicked>>
       ELSE IF t.Prefix # NilReader /\ addPanics(t.PrefixSize)
       THEN /\ pc' = "done"
            /\ panicked' = TRUE
            /\ UNCHANGED <<mcr, etagHash, ret>>
       ELSE /\ pc' = "entries"
            /\ mcr' = IF t.Prefix # NilReader
                      THEN add(mcr, readerAt(t.Prefix), t.PrefixSize) ELSE mcr
            /\ etagHash' = IF t.Prefix # NilReader
                           THEN <<[kind |-> "uint64", v |-> t.PrefixSize]>> ELSE <<>>
            /\ UNCHANGED <<ret, panicked>>
    /\ UNCHANGED <<added, rd, t, heap, given, idx, dir, maxTime, call, reads, seeker>>

\* The comment check and the prefix.
NAStart ==
    /\ pc = "start"
    /\ IF StrLen(t.Comment) > uint16max
       THEN /\ pc' = "done"
            /\ ret' = Returned("error", errComment, NoArchive)
            /\ UNCHANGED <<mcr, etagHash, panicked>>
       ELSE IF t.Prefix # NilReader /\ addPanics(t.PrefixSize)
       THEN /\ pc' = "done"
            /\ panicked' = TRUE
            /\ UNCHANGED <<mcr, etagHash, ret>>
       ELSE /\ pc' = "entries"
            /\ mcr' = IF t.Prefix # NilReader
                      THEN add(mcr, readerAt(t.Prefix), t.PrefixSize) ELSE mcr
            /\ etagHash' = IF t.Prefix # NilReader
                           THEN <<[kind |-> "uint64", v |-> t.PrefixSize]>> ELSE <<>>
            /\ UNCHANGED <<ret, panicked>>
    /\ UNCHANGED <<added, rd, t, heap, given, idx, dir, maxTime, call, reads, seeker>>

\* One pass of the loop over t.Entries.
NAEntry ==
    /\ pc = "entries"
    /\ idx < Len(t.Entries)
    /\ \E p \in {t.Entries[idx + 1]} :
       \E e \in {EntryPass(mcr, heap, p)} :
           /\ heap' = e.heap
           /\ mcr' = e.m
           /\ dir' = Append(dir, [fh |-> p, offset |-> e.offset])
           /\ etagHash' = etagHash \o e.hashed
           /\ idx' = idx + 1
           /\ pc' = IF e.status = "next" THEN "entries" ELSE "done"
           /\ panicked' = (e.status = "panic")
           /\ ret' = IF e.status = "error"
                     THEN Returned("error", e.err, NoArchive) ELSE ret
           /\ maxTime' = IF e.status = "next" /\ After(e.heap[p].Modified, maxTime)
                         THEN e.heap[p].Modified ELSE maxTime
    /\ UNCHANGED <<added, rd, t, given, call, reads, seeker>>

\* After the loop: the central directory, the creation time and the etag.
NADirectory ==
    /\ pc = "entries"
    /\ idx = Len(t.Entries)
    /\ \E cd \in {writeCentralDirectory(mcr.size, dir, heap, t.Comment)} :
       \E m \in {addSizeReaderAt(mcr, cd.blob)} :
           /\ heap' = cd.heap
           /\ mcr' = m
           /\ etagHash' = Append(etagHash, cd.blob)
           /\ ret' = Returned("ok", NoErr,
                        [parts |-> m,
                         createTime |-> IF IsZero(t.CreateTime)
                                        THEN maxTime ELSE t.CreateTime,
                         etag |-> Append(etagHash, cd.blob)])
    /\ pc' = "done"
    /\ UNCHANGED <<added, rd, panicked, t, given, idx, dir, maxTime, call, reads, seeker>>

Next == NAStart \/ NAEntry \/ NADirectory

(***************************************************************************)
(* The Templates NewArchive is called with.                                *)
(***************************************************************************)
MaxEntries == 2

SomeTime == Time(<<59165, 23032, 0, 0>>, 2017, 10, 31, 21, 11, 57)

OtherTime == Time(<<42496, 4814, 0, 0>>, 1980, 1, 1, 0, 0, 0)

\* January 1 of the year 0, a Time before the zero Time.
AncientTime == Time(<<33792, 34443, 65521, 65535>>, 0, 1, 1, 0, 0, 0)

Content == [kind |-> "same", b |-> 7]

\* A FileHeader with the fields the cases below vary.
FH(name, extra, comment, content, csize, usize, method, modified) ==
    [Name |-> name, Comment |-> comment, NonUTF8 |-> FALSE,
     CreatorVersion |-> 0, ReaderVersion |-> 0, Flags |-> 0,
     Method |-> method, Modified |-> modified, CRC32 |-> 305419896 % 65521,
     CompressedSize64 |-> csize, UncompressedSize64 |-> usize,
     Extra |-> extra, ExternalAttrs |-> 0, Content |-> content]

FileName == Str(<<97>>)

DirName == Str(<<100, 47>>)

LongName == Rep(120, uint16max + 1)

NoBytes == <<>>

\* 0xFFFFFFFE, the largest size that is not zip64.
BelowUint32max == <<Base - 2, Base - 1, 0, 0>>

Headers ==
    {   \* files with content: small, zero-sized, just below zip64, zip64 by
        \* either size
        FH(FileName, NoBytes, NoBytes, Content, I64(5), I64(9), Deflate, SomeTime),
        FH(FileName, NoBytes, NoBytes, Content, Zero64, Zero64, Store, OtherTime),
        FH(FileName, NoBytes, NoBytes, Content, BelowUint32max, BelowUint32max,
           Store, SomeTime),
        FH(FileName, NoBytes, NoBytes, Content, uint32max, I64(9), Deflate, SomeTime),
        FH(FileName, NoBytes, NoBytes, Content, I64(5), uint32max, Deflate, ZeroTime),
        \* files without content: empty, and with a size
        FH(FileName, NoBytes, NoBytes, NilReader, Zero64, Zero64, Store, AncientTime),
        FH(FileName, NoBytes, NoBytes, NilReader, I64(5), I64(5), Store, SomeTime),
        \* directories: without content whatever the method and sizes, with content
        FH(DirName, NoBytes, NoBytes, NilReader, uint32max, I64(5678), Deflate, SomeTime),
        FH(DirName, NoBytes, NoBytes, NilReader, Zero64, Zero64, Store, OtherTime),
        FH(DirName, NoBytes, NoBytes, Content, I64(5), I64(5), Store, SomeTime),
        \* names and extras around the 65535-byte limit
        FH(LongName, Rep(255, uint16max + 1), NoBytes, Content, I64(5), I64(5),
           Store, SomeTime),
        FH(LongName, NoBytes, NoBytes, NilReader, I64(5), I64(5), Store, SomeTime),
        FH(FileName, Rep(255, uint16max + 1), NoBytes, Content, I64(5), I64(5),
           Store, SomeTime),
        FH(FileName, Rep(255, uint16max - extTimeExtraLen + 1), NoBytes, Content,
           I64(5), I64(5), Store, SomeTime),
        FH(FileName, Rep(255, uint16max - extTimeExtraLen), NoBytes, Content,
           uint32max, I64(5), Store, SomeTime),
        \* entry comments around the 65535-byte limit
        FH(FileName, NoBytes, Rep(99, uint16max), Content, I64(5), I64(5),
           Store, SomeTime),
        FH(FileName, NoBytes, Rep(99, uint16max + 1), Content, I64(5), I64(5),
           Store, SomeTime)
    }

\* The shapes of Entries: which positions hold the same pointer.
RECURSIVE Shapes(_)
Shapes(n) ==
    IF n = 0 THEN {<<>>}
    ELSE {Append(s, p) : s \in Shapes(n - 1), p \in 1..n} \cup Shapes(n - 1)

Range(s) == {s[k] : k \in 1..Len(s)}

\* Pointers are numbered in the order of their first use.
Canonical(s) ==
    \A k \in 1..Len(s) : s[k] <= 1 + Cardinality({s[j] : j \in 1..(k - 1)})

EntryLists == {s \in Shapes(MaxEntries) : Canonical(s)}

Prefixes ==
    {[Prefix |-> NilReader, PrefixSize |-> Zero64],
     [Prefix |-> NilReader, PrefixSize |-> I64(7)],
     [Prefix |-> [kind |-> "same", b |-> 1], PrefixSize |-> I64(9)],
     [Prefix |-> [kind |-> "same", b |-> 1], PrefixSize |-> Zero64]}

Comments == {NoBytes, Rep(104, uint16max), Rep(104, uint16max + 1)}

CreateTimes == {ZeroTime, OtherTime}

\* An explicit CreateTime is tried on the Templates without prefix and comment.
TopLevels ==
    {x \in [px : Prefixes, c : Comments, ct : CreateTimes] :
        x.ct = ZeroTime \/ (x.px.Prefix = NilReader /\ x.c = NoBytes)}

Templates ==
    {[Prefix |-> x.px.Prefix, PrefixSize |-> x.px.PrefixSize, Entries |-> es,
      Comment |-> x.c, CreateTime |-> x.ct] :
        x \in TopLevels, es \in EntryLists}

NoTemplate ==
    [Prefix |-> NilReader, PrefixSize |-> Zero64, Entries |-> <<>>,
     Comment |-> NoBytes, CreateTime |-> ZeroTime]

Init ==
    /\ t \in Templates
    /\ heap \in [Range(t.Entries) -> Headers]
    /\ given = heap
    /\ pc = "start"
    /\ idx = 0
    /\ dir = <<>>
    /\ maxTime = ZeroTime
    /\ etagHash = <<>>
    /\ ret = NotReturned
    /\ mcr = EmptyMcr
    /\ added = <<>>
    /\ rd = NoRead
    /\ panicked = FALSE
    /\ call = NoCall
    /\ reads = NoReads
    /\ pb = NewBuilder
    /\ mrs = NoSeeker
    /\ seekLog = NoLog

Spec == Init /\ [][Next]_vars

(***************************************************************************)
(* The composer on its own.                                                *)
(***************************************************************************)
MaxParts == 3

MaxBuf == 4

MyError == "my error"

\* 2^62: a size two of which are more than an int64 holds.
Huge64 == <<0, 0, 0, Half \div 2>>

\* The (data, size) pairs the add calls are drawn from.
AddArgs ==
    {[data |-> [kind |-> "bytes", data |-> d], size |-> I64(Len(d))] :
        d \in {<<>>, <<11>>, <<21, 22>>, <<31, 32, 33>>}}
    \cup {[data |-> [kind |-> "bytes", data |-> <<41>>], size |-> I64(2)],
          [data |-> [kind |-> "err", data |-> <<51, 52>>, err |-> MyError],
           size |-> I64(4)],
          [data |-> [kind |-> "raw", n |-> 0, err |-> NoErr], size |-> I64(2)],
          [data |-> [kind |-> "raw", n |-> MaxBuf + 2, err |-> MyError], size |-> I64(2)],
          [data |-> [kind |-> "bytes", data |-> <<61>>], size |-> MinusOne64],
          [data |-> [kind |-> "same", b |-> 71], size |-> Huge64]}

\* The offsets reads are made at: from -1 to one past the end.
ReadOffsets(m) ==
    {MinusOne64} \cup {I64(k) : k \in 0..(ToInt(m.size) + 1)}

InitMR ==
    /\ mcr = EmptyMcr
    /\ added = <<>>
    /\ rd = NoRead
    /\ panicked = FALSE
    /\ t = NoTemplate
    /\ heap = <<>>
    /\ given = <<>>
    /\ pc = "idle"
    /\ idx = 0
    /\ dir = <<>>
    /\ maxTime = ZeroTime
    /\ etagHash = <<>>
    /\ ret = NotReturned
    /\ call = NoCall
    /\ reads = NoReads
    /\ pb = NewBuilder
    /\ mrs = NoSeeker
    /\ seekLog = NoLog

builder == <<t, heap, given, pc, idx, dir, maxTime, etagHash, ret>>

\* mcr.add(data, size); parts are added only before the first read.
MRAdd ==
    /\ ~panicked
    /\ rd = NoRead
    /\ Len(added) < MaxParts
    /\ \E a \in AddArgs :
        /\ added' = Append(added, a)
        /\ IF addPanics(a.size)
           THEN panicked' = TRUE /\ mcr' = mcr
           ELSE panicked' = FALSE /\ mcr' = add(mcr, a.data, a.size)
    /\ rd' = rd
    /\ UNCHANGED <<builder, call, reads, seeker>>

\* mcr.ReadAtContext(ctx, p, off).  A read writes nothing of mcr, so a behaviour
\* records one read: any later read returns what it returns as the first.
MRRead ==
    /\ ~panicked
    /\ rd = NoRead
    /\ pc = "idle"
    /\ \E plen \in 0..MaxBuf, off \in ReadOffsets(mcr) :
        LET r == ReadAtContext(mcr, plen, off)
        IN  rd' = [plen |-> plen, off |-> off, n |-> r.n, err |-> r.err,
                   buf |-> r.buf, calls |-> r.calls, panic |-> r.panic]
    /\ UNCHANGED <<mcr, added, panicked>>
    /\ UNCHANGED <<builder, call, reads, seeker>>

NextMR == MRAdd \/ MRRead

SpecMR == InitMR /\ [][NextMR]_vars

(***************************************************************************)
(* Properties of the composer (SpecMR).                                    *)
(***************************************************************************)
Max(a, b) == IF a > b THEN a ELSE b

\* Every part added is a bytes.Reader over exactly as many bytes as its size.
ExactParts ==
    \A k \in 1..Len(added) :
        /\ added[k].data.kind = "bytes"
        /\ added[k].size = I64(Len(added[k].data.data))

\* The concatenation of the data of the parts, in the order they were added.
RECURSIVE Flat(_)
Flat(adds) == IF adds = <<>> THEN <<>> ELSE Head(adds).data.data \o Flat(Tail(adds))

RECURSIVE CallSum(_, _)
CallSum(calls, k) == IF k = 0 THEN 0 ELSE calls[k].n + CallSum(calls, k - 1)

\* C2: over parts whose sources return exactly the bytes asked for, a read at
\* offset >= 0 with a buffer of length L returns n = min(L, max(0, Size - offset))
\* bytes, which are bytes [offset, offset+n) of the concatenation of the parts in
\* the order added, with a nil error when n = L and io.EOF when n < L.
C2_ReadIsSliceOfConcatenation ==
    (rd # NoRead /\ ExactParts /\ ~IsNeg64(rd.off)) =>
        LET cat == Flat(added)
            o == ToInt(rd.off)
            n == Min(rd.plen, Max(0, Len(cat) - o))
        IN  /\ ~rd.panic
            /\ mcr.size = I64(Len(cat))
            /\ rd.n = n
            /\ SubSeq(rd.buf, 1, n) = SubSeq(cat, o + 1, o + n)
            /\ rd.err = IF n = rd.plen THEN NoErr ELSE EOF

\* A read that starts inside one part, runs over a part boundary and past the end.
C2_Witness ==
    /\ rd # NoRead
    /\ ExactParts
    /\ rd.off # Zero64
    /\ ~IsNeg64(rd.off)
    /\ Len(rd.calls) >= 2
    /\ rd.calls[1].off # Zero64
    /\ rd.err = EOF
    /\ rd.n > 0

\* C3 as stated: whatever the backing sources return, a read never reports more
\* bytes than the buffer length, and its result is io.EOF only when
\* offset + bytes_read >= Size().
C3_Original ==
    (rd # NoRead /\ ~rd.panic) =>
        /\ rd.n <= rd.plen
        /\ rd.err = EOF => ~LtS64(Add64(rd.off, I64(rd.n)), mcr.size)

\* Every backing-source call of the read reported between 0 and the number of
\* bytes it was asked for.
CallsCountWithinRequest ==
    \A k \in 1..Len(rd.calls) :
        rd.calls[k].n >= 0 /\ rd.calls[k].n <= rd.calls[k].len

\* Every backing-source call of the read delivered all the bytes asked for with
\* a nil error, or failed with an error other than io.EOF.
CallsFullOrFailed ==
    \A k \in 1..Len(rd.calls) :
        \/ rd.calls[k].err = NoErr /\ rd.calls[k].n = rd.calls[k].len
        \/ rd.calls[k].err \notin {NoErr, EOF}

\* C3, amended: a read never reports more bytes than the buffer length provided
\* every backing-source call it makes reports between 0 and the number of bytes
\* asked for; and its result is io.EOF only when offset + bytes_read >= Size()
\* provided, in addition, the offset is not negative and every such call
\* delivers all the bytes asked for with a nil error or fails with an error
\* other than io.EOF.
C3_ReadBoundedForHonestSources ==
    (rd # NoRead /\ ~rd.panic /\ CallsCountWithinRequest) =>
        /\ rd.n >= 0
        /\ rd.n <= rd.plen
        /\ (~IsNeg64(rd.off) /\ CallsFullOrFailed /\ rd.err = EOF) =>
               ~LtS64(Add64(rd.off, I64(rd.n)), mcr.size)

\* A read over two sources that ran past the end of the range.
C3_Witness ==
    /\ rd # NoRead
    /\ ~IsNeg64(rd.off)
    /\ ~rd.panic
    /\ CallsCountWithinRequest
    /\ CallsFullOrFailed
    /\ Len(rd.calls) >= 2
    /\ rd.err = EOF
    /\ rd.n > 0
    /\ rd.n < rd.plen

\* C4 as stated: a read at an offset >= the total size, whatever the buffer
\* length (zero included), also of the empty range, returns io.EOF with zero
\* bytes and consults no backing source.
C4_Original ==
    (rd # NoRead /\ ~LtS64(rd.off, mcr.size)) =>
        /\ rd.err = EOF
        /\ rd.n = 0
        /\ rd.calls = <<>>

\* C4, amended: a read at an offset >= the total size, also of the empty range,
\* produces zero bytes and consults no backing source; its result is io.EOF for
\* every buffer of length > 0 and nil for the buffer of length zero.
C4_ReadAtOrPastEnd ==
    (rd # NoRead /\ ~LtS64(rd.off, mcr.size)) =>
        /\ rd.n = 0
        /\ rd.calls = <<>>
        /\ ~rd.panic
        /\ rd.err = IF rd.plen = 0 THEN NoErr ELSE EOF

\* A read of a non-empty range exactly at its end.
C4_Witness ==
    /\ rd # NoRead
    /\ Len(mcr.parts) >= 2
    /\ rd.off = mcr.size
    /\ rd.plen > 0
    /\ rd.err = EOF

\* C5: when a backing source returns an error, the read stops at that segment:
\* it returns that error unchanged, the count is the bytes of the earlier
\* segments plus the bytes the failing source reported, and no later segment's
\* source is called.
C5_SourceErrorStopsRead ==
    (rd # NoRead /\ ~rd.panic) =>
        \A k \in 1..Len(rd.calls) :
            rd.calls[k].err # NoErr =>
                /\ k = Len(rd.calls)
                /\ rd.err = rd.calls[k].err
                /\ rd.n = CallSum(rd.calls, k)
                /\ \A j \in 1..(k - 1) :
                       /\ rd.calls[j].part = rd.calls[k].part - (k - j)
                       /\ rd.calls[j].err = NoErr

\* A read that spans an exact part and the failing part, with a part after it.
C5_Witness ==
    /\ rd # NoRead
    /\ Len(rd.calls) = 2
    /\ rd.calls[1].n > 0
    /\ rd.calls[2].err = MyError
    /\ rd.calls[2].n > 0
    /\ rd.err = MyError
    /\ rd.calls[2].part + 1 < Len(mcr.parts)
    /\ rd.n < rd.plen

(***************************************************************************)
(* Properties of NewArchive (Spec).  They are stated over the Template as  *)
(* the caller gave it: t, and given, the FileHeaders before the call.      *)
(***************************************************************************)
\* The FileHeader of entry k as the caller gave it.
Given(k) == given[t.Entries[k]]

\* How many of the entries up to k are the same FileHeader as entry k: each
\* pass over it appends one more timestamp block to its Extra.
Occ(k) == Cardinality({j \in 1..k : t.Entries[j] = t.Entries[k]})

IsDirEntry(k) == HasSuffixSlash(Given(k).Name)

\* The length of the extra field of entry k as its local header encodes it.
EncodedExtraLen(k) == StrLen(Given(k).Extra) + extTimeExtraLen * Occ(k)

InvalidEntry(k) ==
    \/ StrLen(Given(k).Name) > uint16max
    \/ EncodedExtraLen(k) > uint16max
    \/ IsDirEntry(k) /\ Given(k).Content # NilReader
    \/ ~IsDirEntry(k) /\ Given(k).Content = NilReader
                      /\ Given(k).CompressedSize64 # Zero64

EntryPositions == 1..Len(t.Entries)

\* The Template is valid but for its entries' comments, which nothing checks.
TemplateValid ==
    /\ StrLen(t.Comment) <= uint16max
    /\ \A k \in EntryPositions : ~InvalidEntry(k)

PrefixLen == IF t.Prefix # NilReader THEN t.PrefixSize ELSE Zero64

HeaderLen(k) == fileHeaderLen + StrLen(Given(k).Name) + EncodedExtraLen(k)

ContentLen(k) ==
    IF ~IsDirEntry(k) /\ Given(k).Content # NilReader
    THEN Given(k).CompressedSize64 ELSE Zero64

DescriptorLen(k) ==
    IF IsDirEntry(k) THEN 0
    ELSE IF isZip64(Given(k)) THEN dataDescriptor64Len ELSE dataDescriptorLen

\* The offset at which the entries up to k end.
RECURSIVE EntriesEnd(_)
EntriesEnd(k) ==
    IF k = 0 THEN PrefixLen
    ELSE Add64(EntriesEnd(k - 1),
               Add64(I64(HeaderLen(k) + DescriptorLen(k)), ContentLen(k)))

\* Whether the directory record of entry k carries a zip64 block.
RecordIsZip64(k) ==
    \/ ~IsDirEntry(k) /\ isZip64(Given(k))
    \/ GeqU64(EntriesEnd(k - 1), uint32max)

\* The length of the directory record of entry k: its FileHeader holds the
\* timestamp blocks of all its passes and the zip64 blocks of its records so far.
RecordLenOf(k) ==
    directoryHeaderLen + StrLen(Given(k).Name) + StrLen(Given(k).Extra)
    + extTimeExtraLen * Cardinality({j \in EntryPositions : t.Entries[j] = t.Entries[k]})
    + Zip64BlockLen * Cardinality({j \in 1..k : t.Entries[j] = t.Entries[k]
                                                 /\ RecordIsZip64(j)})
    + StrLen(Given(k).Comment)

RECURSIVE RecordsLen(_)
RecordsLen(k) == IF k = 0 THEN 0 ELSE RecordsLen(k - 1) + RecordLenOf(k)

\* The length of the central directory with its end records and the comment.
CentralDirectoryLen ==
    RecordsLen(Len(t.Entries))
    + (IF GeqU64(EntriesEnd(Len(t.Entries)), uint32max)
       THEN directory64EndLen + directory64LocLen ELSE 0)
    + directoryEndLen + StrLen(t.Comment)

\* C1: for an accepted Template, Size() is the prefix length (PrefixSize when
\* Prefix is non-nil, else 0), plus for each entry its local header length
\* (30 + name length + extra length), content length (CompressedSize64 for a
\* non-directory entry with content, else 0) and data-descriptor length (0 for
\* a directory, 24 for zip64, 16 otherwise), plus the length of the central
\* directory with its end records and the archive comment.
C1_SizeIsSumOfParts ==
    ret.status = "ok" =>
        /\ ret.ar.parts.size =
               Add64(EntriesEnd(Len(t.Entries)), I64(CentralDirectoryLen))
        /\ ret.ar.parts = mcr

\* An accepted Template with a prefix, a zip64 file and a directory.
C1_Witness ==
    /\ ret.status = "ok"
    /\ t.Prefix # NilReader
    /\ t.PrefixSize # Zero64
    /\ Len(t.Entries) = 2
    /\ ~IsDirEntry(1) /\ isZip64(Given(1)) /\ Given(1).Content # NilReader
    /\ IsDirEntry(2)
    /\ t.Comment # NoBytes

\* C6: NewArchive succeeds when the archive comment is at most 65535 bytes and
\* the rest of the Template is valid; when the comment is 65536 bytes or longer
\* it returns an error and no Archive, and no entry is normalized or encoded.
C6_ArchiveCommentLimit ==
    /\ (pc = "done" /\ TemplateValid) =>
           ret.status = "ok" /\ ret.err = NoErr /\ ret.ar # NoArchive
    /\ StrLen(t.Comment) > uint16max =>
           /\ heap = given
           /\ idx = 0
           /\ mcr = EmptyMcr
           /\ pc = "done" => ret = Returned("error", errComment, NoArchive)

\* A Template with entries whose comment is one byte too long, rejected.
C6_Witness ==
    /\ pc = "done"
    /\ StrLen(t.Comment) = uint16max + 1
    /\ Len(t.Entries) = 2
    /\ ret.status = "error"
    /\ ret.ar = NoArchive

\* The directory the Archive ends with.
DirectoryOf(ar) == ar.parts.parts[Len(ar.parts.parts)].data.r.blob

\* C7 as stated: a Template with an entry whose comment is longer than 65535
\* bytes is rejected, so that in every directory record of an Archive the
\* 16-bit comment-length field equals the number of comment bytes written.
C7_EntryCommentLimit ==
    pc = "done" =>
        /\ (\E k \in EntryPositions : StrLen(Given(k).Comment) > uint16max) =>
               ret.status = "error"
        /\ ret.status = "ok" =>
               \A k \in 1..Len(DirectoryOf(ret.ar).records) :
                   DirectoryOf(ret.ar).records[k].commentLen =
                       StrLen(DirectoryOf(ret.ar).records[k].Comment)

\* C8: a Template with a non-directory entry whose Content is nil and whose
\* CompressedSize64 is not zero is rejected with no Archive; a non-directory
\* entry with nil Content and CompressedSize64 = 0 is accepted.
C8_NilContentNeedsZeroSize ==
    pc = "done" =>
        /\ (\E k \in EntryPositions :
                /\ ~IsDirEntry(k)
                /\ Given(k).Content = NilReader
                /\ Given(k).CompressedSize64 # Zero64) =>
               ret.status = "error" /\ ret.ar = NoArchive
        /\ ret.err = errEmptyNonzero =>
               /\ ~IsDirEntry(idx)
               /\ Given(idx).Content = NilReader
               /\ Given(idx).CompressedSize64 # Zero64
        /\ (TemplateValid /\ \E k \in EntryPositions :
                                  /\ ~IsDirEntry(k)
                                  /\ Given(k).Content = NilReader) =>
               ret.status = "ok"

\* A valid entry followed by a file without content that claims a size.
C8_Witness ==
    /\ pc = "done"
    /\ idx = 2
    /\ ret.err = errEmptyNonzero
    /\ ~InvalidEntry(1)
    /\ ~IsDirEntry(2)
    /\ Given(2).Content = NilReader
    /\ Given(2).CompressedSize64 # Zero64

\* The index in the parts of the Archive of the local header of entry k.
HeaderPart(ar, k) ==
    CHOOSE j \in 1..Len(ar.parts.parts) : ar.parts.parts[j].offset = dir[k].offset

\* C9: an entry whose name ends in '/' is a directory: with non-nil Content
\* NewArchive fails; otherwise it is encoded with Method = Store, both sizes
\* zero and the data-descriptor flag (0x8) clear, whatever Method and sizes the
\* caller set, and neither a content segment nor a data descriptor follows its
\* local header.
C9_DirectoryEntries ==
    pc = "done" =>
        /\ (\E k \in EntryPositions : IsDirEntry(k) /\ Given(k).Content # NilReader) =>
               ret.status = "error" /\ ret.ar = NoArchive
        /\ ret.status = "ok" =>
               \A k \in EntryPositions :
                   IsDirEntry(k) =>
                       LET h == heap[t.Entries[k]]
                           j == HeaderPart(ret.ar, k)
                           local == ret.ar.parts.parts[j].data.r.blob
                           after == ret.ar.parts.parts[j + 1].data.r
                           rec == DirectoryOf(ret.ar).records[k]
                       IN  /\ Given(k).Content = NilReader
                           /\ h.Method = Store
                           /\ h.CompressedSize64 = Zero64
                           /\ h.UncompressedSize64 = Zero64
                           /\ local.kind = "header"
                           /\ local.Name = Given(k).Name
                           /\ local.Method = Store
                           /\ ~HasBit(local.Flags, FlagDataDescriptor)
                           /\ rec.Method = Store
                           /\ ~HasBit(rec.Flags, FlagDataDescriptor)
                           /\ rec.compressedSize = IF rec.zip64 THEN uint32max ELSE Zero64
                           /\ rec.uncompressedSize = IF rec.zip64 THEN uint32max ELSE Zero64
                           /\ after.kind = "blob"
                           /\ after.blob.kind \in {"header", "directory"}
        /\ (TemplateValid /\ \E k \in EntryPositions : IsDirEntry(k)) =>
               ret.status = "ok"

\* An Archive with a directory given as Deflate with sizes, and a file after it.
C9_Witness ==
    /\ ret.status = "ok"
    /\ Len(t.Entries) = 2
    /\ IsDirEntry(1)
    /\ Given(1).Method = Deflate
    /\ Given(1).CompressedSize64 # Zero64
    /\ Given(1).UncompressedSize64 # Zero64
    /\ ~IsDirEntry(2)
    /\ Given(2).Content # NilReader

\* Entry k is the first entry of the Template that is not valid.
FirstInvalid(k) ==
    /\ InvalidEntry(k)
    /\ \A j \in 1..(k - 1) : ~InvalidEntry(j)

\* What C10 says of a Template whose first invalid entry is k.
LongNameOrExtraError(k) ==
    /\ StrLen(Given(k).Name) > uint16max =>
           ret = Returned("error", errLongName, NoArchive)
    /\ (StrLen(Given(k).Name) <= uint16max /\ EncodedExtraLen(k) > uint16max) =>
           ret = Returned("error", errLongExtra, NoArchive)

C11_ExtraWithinLimitNotRejected ==
    (pc = "done" /\ ret.err = errLongExtra) =>
        StrLen(Given(idx).Extra) > uint16max

(***************************************************************************)
(* The end of writeCentralDirectory on its own (SpecEnd): the number of    *)
(* records, the size of the records written and the start offset are      *)
(* taken at the values around the zip64 limits.                            *)
(***************************************************************************)
\* The shortest and the longest directory record of a valid entry, and the
\* shortest local header: prepareEntry leaves at least the timestamp block.
MinRecordLen == directoryHeaderLen + extTimeExtraLen

MaxRecordLen == directoryHeaderLen + 3 * uint16max

MinEntryLen == fileHeaderLen + extTimeExtraLen

\* 2^32
Above32 == <<0, 0, 1, 0>>

\* len(dir): few records, the number of TestZip64LargeDirectory, and the
\* numbers around uint16max.
EndCounts == {0, 1, 2, uint16max \div 2, uint16max - 1, uint16max, uint16max + 1}

\* cw.count after n records: at least n shortest records; for the small n at
\* most n longest ones (from uint16max \div 2 records on, 2^32 is within reach).
EndSizes(n) ==
    IF n <= 2
    THEN {I64(n * MinRecordLen), I64(n * MaxRecordLen)}
    ELSE {I64(n * MinRecordLen), BelowUint32max, uint32max, Above32}

\* start: at least n shortest local headers.
EndOffsets(n) ==
    {I64(n * MinEntryLen), BelowUint32max, uint32max, Above32, <<0, 0, 256, 0>>}

EndComments == {NoBytes, Rep(104, uint16max)}

Pending == [pending |-> TRUE]

EndCalls ==
    {[op |-> "writeCentralDirectory", records |-> n, size |-> sz, start |-> off,
      comment |-> c, out |-> Pending] :
        n \in EndCounts, sz \in UNION {EndSizes(k) : k \in EndCounts},
        off \in UNION {EndOffsets(k) : k \in EndCounts}, c \in EndComments}

InitEnd ==
    /\ call \in {x \in EndCalls : x.size \in EndSizes(x.records)
                                  /\ x.start \in EndOffsets(x.records)}
    /\ mcr = EmptyMcr
    /\ added = <<>>
    /\ rd = NoRead
    /\ panicked = FALSE
    /\ t = NoTemplate
    /\ heap = <<>>
    /\ given = <<>>
    /\ pc = "idle"
    /\ idx = 0
    /\ dir = <<>>
    /\ maxTime = ZeroTime
    /\ etagHash = <<>>
    /\ ret = NotReturned
    /\ reads = NoReads
    /\ pb = NewBuilder
    /\ mrs = NoSeeker
    /\ seekLog = NoLog

\* writeCentralDirectory from the end of its loop on.
WriteEnd ==
    /\ call.op = "writeCentralDirectory"
    /\ call.out = Pending
    /\ call' = [call EXCEPT !.out = EndRecords(I64(call.records), call.size,
                                               call.start, call.comment)]
    /\ UNCHANGED <<mcr, added, rd, panicked, reads, seeker>>
    /\ UNCHANGED builder

NextEnd == WriteEnd

SpecEnd == InitEnd /\ [][NextEnd]_vars

\* C12: the zip64 end-of-directory record and locator are written if and only
\* if the entry count is >= 65535, or the size of the directory records is
\* >= 0xFFFFFFFF, or the directory start offset is >= 0xFFFFFFFF; without them
\* (so at 65534 entries, size 0xFFFFFFFE, offset 0xFFFFFFFE) the end record
\* carries the true values, with them it carries the 0xFFFF and 0xFFFFFFFF marks.
C12_Zip64EndRecords ==
    (call.op = "writeCentralDirectory" /\ call.out # Pending) =>
        LET o == call.out
            z == \/ call.records >= uint16max
                 \/ ~LtU64(call.size, uint32max)
                 \/ ~LtU64(call.start, uint32max)
        IN  /\ Len(o.end64) = (IF z THEN 1 ELSE 0)
            /\ Len(o.loc64) = (IF z THEN 1 ELSE 0)
            /\ o.zip64 = z
            /\ o.len = (IF z THEN directory64EndLen + directory64LocLen ELSE 0)
                       + directoryEndLen + StrLen(call.comment)
            /\ o.end.commentLen = StrLen(call.comment)
            /\ ~z => /\ o.end.records = call.records
                     /\ o.end.size = call.size
                     /\ o.end.offset = call.start
            /\ z => /\ o.end.records = uint16max
                    /\ o.end.size = uint32max
                    /\ o.end.offset = uint32max
                    /\ o.end64[1].records = I64(call.records)
                    /\ o.end64[1].size = call.size
                    /\ o.end64[1].offset = call.start
                    /\ o.loc64[1].offset = Add64(call.start, call.size)

\* The directory of 65534 entries, 0xFFFFFFFE bytes at offset 0xFFFFFFFE.
C12_Witness ==
    /\ call.op = "writeCentralDirectory"
    /\ call.out # Pending
    /\ call.records = uint16max - 1
    /\ call.size = BelowUint32max
    /\ call.start = BelowUint32max
    /\ call.out.end64 = <<>>
    /\ call.out.loc64 = <<>>

\* The directory record of entry k carries, at the end of its extra field, the
\* zip64 block with the sizes of the entry and the offset of its local header.
CarriesZip64Block(rec, k) ==
    /\ rec.zip64
    /\ StrLen(rec.Extra) >= Zip64BlockLen
    /\ Drop(rec.Extra, StrLen(rec.Extra) - Zip64BlockLen) =
           Zip64BlockBytes([id |-> zip64ExtraID, size |-> 24,
                            uncompressedSize |-> heap[t.Entries[k]].UncompressedSize64,
                            compressedSize |-> heap[t.Entries[k]].CompressedSize64,
                            offset |-> EntriesEnd(k - 1)])

\* The directory record of entry k has the extra field without a block for it.
CarriesNoZip64Block(rec, k) ==
    /\ ~rec.zip64
    /\ StrLen(rec.Extra) = RecordLenOf(k) - directoryHeaderLen
                           - StrLen(rec.Name) - StrLen(rec.Comment)

\* C13 as stated: in the central directory of every built archive, an entry's
\* record carries the zip64 extra block appended by the builder if and only if
\* the entry's compressed size or uncompressed size is >= 0xFFFFFFFF.
C13_Original ==
    ret.status = "ok" =>
        \A k \in EntryPositions :
            IF isZip64(Given(k))
            THEN CarriesZip64Block(DirectoryOf(ret.ar).records[k], k)
            ELSE CarriesNoZip64Block(DirectoryOf(ret.ar).records[k], k)

\* C13, amended: an entry's record carries the zip64 extra block appended by
\* the builder if and only if the entry's compressed size or uncompressed size
\* as encoded (zero for a directory entry) is >= 0xFFFFFFFF, or the offset of
\* its local header is >= 0xFFFFFFFF.
C13_Zip64BlockForSizeOrOffset ==
    ret.status = "ok" =>
        \A k \in EntryPositions :
            IF \/ ~IsDirEntry(k) /\ isZip64(Given(k))
               \/ ~LtU64(dir[k].offset, uint32max)
            THEN /\ CarriesZip64Block(DirectoryOf(ret.ar).records[k], k)
                 /\ dir[k].offset = EntriesEnd(k - 1)
            ELSE CarriesNoZip64Block(DirectoryOf(ret.ar).records[k], k)

\* An archive whose second entry is small and lies past 0xFFFFFFFF.
C13_Witness ==
    /\ ret.status = "ok"
    /\ Len(t.Entries) = 2
    /\ ~isZip64(Given(1))
    /\ ~isZip64(Given(2))
    /\ ~LtU64(dir[2].offset, uint32max)
    /\ ~DirectoryOf(ret.ar).records[1].zip64
    /\ DirectoryOf(ret.ar).records[2].zip64

\* The record rec of entry k encodes the sizes cs and us: in its 32-bit fields,
\* or with the 0xFFFFFFFF marks there and the sizes in its zip64 block.
RecordHasSizes(rec, k, cs, us) ==
    IF rec.zip64
    THEN /\ rec.compressedSize = uint32max
         /\ rec.uncompressedSize = uint32max
         /\ Drop(rec.Extra, StrLen(rec.Extra) - Zip64BlockLen) =
                Zip64BlockBytes([id |-> zip64ExtraID, size |-> 24,
                                 uncompressedSize |-> us, compressedSize |-> cs,
                                 offset |-> dir[k].offset])
    ELSE /\ rec.compressedSize = cs
         /\ rec.uncompressedSize = us

\* The record rec is the record of entry k as the caller gave the entry.
RecordAsGiven(rec, k) ==
    /\ rec.Name = Given(k).Name
    /\ rec.nameLen = StrLen(Given(k).Name)
    /\ rec.Method = Given(k).Method
    /\ RecordHasSizes(rec, k, Given(k).CompressedSize64, Given(k).UncompressedSize64)

\* The record rec is the record of the directory entry k.
RecordOfDirectory(rec, k) ==
    /\ rec.Name = Given(k).Name
    /\ rec.nameLen = StrLen(Given(k).Name)
    /\ rec.Method = Store
    /\ RecordHasSizes(rec, k, Zero64, Zero64)

\* The central directory holds one record per entry and says so, in its end
\* record or, with the 0xFFFF mark there, in its zip64 end record.
OneRecordPerEntry ==
    /\ Len(DirectoryOf(ret.ar).records) = Len(t.Entries)
    /\ IF DirectoryOf(ret.ar).end.zip64
       THEN /\ DirectoryOf(ret.ar).end.end.records = uint16max
            /\ DirectoryOf(ret.ar).end.end64[1].records = I64(Len(t.Entries))
       ELSE DirectoryOf(ret.ar).end.end.records = Len(t.Entries)

\* C14 as stated: for every accepted Template with n entries the central
\* directory holds exactly n records, and the i-th record has the name, the
\* method and the sizes the caller gave the i-th entry.
C14_Original ==
    ret.status = "ok" =>
        /\ OneRecordPerEntry
        /\ \A k \in EntryPositions : RecordAsGiven(DirectoryOf(ret.ar).records[k], k)

\* C14, amended: for every accepted Template with n entries the central
\* directory holds exactly n records, and the i-th record has the name of the
\* i-th entry and, when that entry is not a directory, the method and the sizes
\* the caller gave it; the record of a directory entry has method Store and
\* both sizes zero whatever the caller gave.
C14_RecordsFollowEntries ==
    ret.status = "ok" =>
        /\ OneRecordPerEntry
        /\ \A k \in EntryPositions :
               IF IsDirEntry(k)
               THEN RecordOfDirectory(DirectoryOf(ret.ar).records[k], k)
               ELSE RecordAsGiven(DirectoryOf(ret.ar).records[k], k)

\* An archive of a zip64 file followed by a directory given as Deflate.
C14_Witness ==
    /\ ret.status = "ok"
    /\ Len(t.Entries) = 2
    /\ t.Entries[1] # t.Entries[2]
    /\ ~IsDirEntry(1)
    /\ isZip64(Given(1))
    /\ Given(1).Method = Deflate
    /\ IsDirEntry(2)
    /\ Given(2).Method = Deflate
    /\ DirectoryOf(ret.ar).records[2].Method = Store

(***************************************************************************)
(* NewArchive on one entry whose strings and flags vary (SpecUTF8).        *)
(***************************************************************************)
\* Strings, with what they are: valid UTF-8 or not, and whether they hold a
\* rune outside 0x20..0x7D or a backslash, which asks for the UTF-8 flag.
UTF8Strings ==
    {[s |-> Str(<<104, 105>>), valid |-> TRUE, require |-> FALSE],       \* "hi"
     [s |-> Str(<<104, 126>>), valid |-> TRUE, require |-> TRUE],        \* "h~"
     [s |-> Str(<<92, 104>>), valid |-> TRUE, require |-> TRUE],         \* "\h"
     [s |-> Str(<<195, 169>>), valid |-> TRUE, require |-> TRUE],        \* U+00E9
     [s |-> Str(<<104, 228, 184, 150, 105>>), valid |-> TRUE, require |-> TRUE],
                                                                         \* h U+4E16 i
     [s |-> Str(<<239, 191, 189>>), valid |-> TRUE, require |-> TRUE],   \* U+FFFD
     [s |-> Str(<<240, 159, 152, 128>>), valid |-> TRUE, require |-> TRUE],
                                                                         \* U+1F600
     [s |-> Str(<<147, 250, 150, 123>>), valid |-> FALSE, require |-> TRUE],
                                                                         \* Shift JIS
     [s |-> Str(<<237, 160, 128>>), valid |-> FALSE, require |-> TRUE],  \* a surrogate
     [s |-> Str(<<104, 228, 184>>), valid |-> FALSE, require |-> TRUE]}  \* cut short

EmptyString == [s |-> NoBytes, valid |-> TRUE, require |-> FALSE]

UTF8Names == UTF8Strings

UTF8Comments == UTF8Strings \cup {EmptyString}

\* Flags as the caller may set them: none, the UTF-8 flag, and it with bit 0.
CallerFlags == {0, FlagUTF8, FlagUTF8 + 1}

UTF8Headers ==
    {[FH(n.s, NoBytes, c.s, Content, I64(5), I64(5), Deflate, SomeTime)
         EXCEPT !.NonUTF8 = nu, !.Flags = fl] :
        n \in UTF8Names, c \in UTF8Comments, nu \in BOOLEAN, fl \in CallerFlags}

InitUTF8 ==
    /\ t = [NoTemplate EXCEPT !.Entries = <<1>>]
    /\ heap \in [{1} -> UTF8Headers]
    /\ given = heap
    /\ pc = "start"
    /\ idx = 0
    /\ dir = <<>>
    /\ maxTime = ZeroTime
    /\ etagHash = <<>>
    /\ ret = NotReturned
    /\ mcr = EmptyMcr
    /\ added = <<>>
    /\ rd = NoRead
    /\ panicked = FALSE
    /\ call = NoCall
    /\ reads = NoReads
    /\ pb = NewBuilder
    /\ mrs = NoSeeker
    /\ seekLog = NoLog

SpecUTF8 == InitUTF8 /\ [][Next]_vars

\* What a string of UTF8Strings is.
ClassOf(s) == CHOOSE x \in UTF8Comments : x.s = s

\* C15: after normalization of an entry the UTF-8 flag (0x800) is clear when
\* the entry is marked NonUTF8, whatever the name, the comment and the Flags
\* given; set when it is not marked NonUTF8, name or comment requires UTF-8 and
\* both are valid UTF-8; and otherwise as the caller gave it.
C15_UTF8FlagAfterNormalization ==
    idx >= 1 =>
        LET g == Given(1)
            n == ClassOf(g.Name)
            c == ClassOf(g.Comment)
            f == HasBit(heap[1].Flags, FlagUTF8)
        IN  /\ IF g.NonUTF8 THEN ~f
               ELSE IF (n.require \/ c.require) /\ n.valid /\ c.valid THEN f
               ELSE f = HasBit(g.Flags, FlagUTF8)
            /\ HasBit(heap[1].Flags, 1) = HasBit(g.Flags, 1)

\* A plain name with a comment that requires UTF-8, given without the flag.
C15_Witness ==
    /\ idx >= 1
    /\ ~Given(1).NonUTF8
    /\ Given(1).Flags = 0
    /\ ~ClassOf(Given(1).Name).require
    /\ ClassOf(Given(1).Comment).require
    /\ ClassOf(Given(1).Comment).valid
    /\ HasBit(heap[1].Flags, FlagUTF8)

\* Every byte of s is in 0x20..0x7D and is not 0x5C.
SafeBytes(s) ==
    \A k \in 1..Len(s) : s[k].b >= 32 /\ s[k].b <= 125 /\ s[k].b # 92

\* The UTF-8 flag of the local header and of the directory record of the entry
\* is f, as far as they have been written.
WrittenUTF8Flag(f) ==
    /\ (idx >= 1 /\ mcr.parts # <<>>) =>
           HasBit(mcr.parts[1].data.r.blob.Flags, FlagUTF8) = f
    /\ ret.status = "ok" =>
           HasBit(DirectoryOf(ret.ar).records[1].Flags, FlagUTF8) = f

\* C16 as stated: for an entry whose name has only bytes in the safe range
\* (0x20..0x7D without 0x5C) the UTF-8 flag is never set in its local header or
\* directory record, whatever its comment.
C16_Original ==
    SafeBytes(Given(1).Name) => WrittenUTF8Flag(FALSE)

\* C16, amended: for an entry whose name has only bytes in the safe range the
\* UTF-8 flag is set in its local header and directory record if and only if
\* the entry is not marked NonUTF8 and either the caller gave Flags with 0x800
\* or its comment requires UTF-8 and is valid UTF-8.
C16_SafeNameFlagFromCommentOrCaller ==
    SafeBytes(Given(1).Name) =>
        WrittenUTF8Flag(/\ ~Given(1).NonUTF8
                        /\ \/ HasBit(Given(1).Flags, FlagUTF8)
                           \/ /\ ClassOf(Given(1).Comment).require
                              /\ ClassOf(Given(1).Comment).valid)

\* An archive of an entry with a safe name, a plain comment and no flag given.
C16_Witness ==
    /\ ret.status = "ok"
    /\ SafeBytes(Given(1).Name)
    /\ SafeBytes(Given(1).Comment)
    /\ Given(1).Comment # NoBytes
    /\ Given(1).Flags = 0
    /\ ~Given(1).NonUTF8
    /\ ~HasBit(mcr.parts[1].data.r.blob.Flags, FlagUTF8)
    /\ ~HasBit(DirectoryOf(ret.ar).records[1].Flags, FlagUTF8)

\* The Modified times of the entries of the Template.
ModifiedTimes == {Given(k).Modified : k \in EntryPositions}

\* The latest of a set of Times.
Latest(S) == CHOOSE m \in S : \A o \in S : ~LtS64(m.unix, o.unix)

OtherHandle(r) == IF r = NilReader THEN NilReader ELSE [kind |-> "same", b |-> 0]

\* The FileHeaders as given, but for the bytes their content handles return.
OtherContents == [p \in DOMAIN given |-> [given[p] EXCEPT !.Content = OtherHandle(@)]]

\* What NewArchive writes to the hash from entry k on, for the Template t with
\* the FileHeaders hp: the passes over the entries, then the central directory.
RECURSIVE HashedFrom(_, _, _, _, _)
RECURSIVE HashedAfter(_, _, _, _, _)
HashedFrom(k, m, hp, hdrs, hashed) ==
    IF k > Len(t.Entries)
    THEN Append(hashed, writeCentralDirectory(m.size, hdrs, hp, t.Comment).blob)
    ELSE HashedAfter(k, EntryPass(m, hp, t.Entries[k]), hp, hdrs, hashed)

HashedAfter(k, e, hp, hdrs, hashed) ==
    HashedFrom(k + 1, e.m, e.heap,
               Append(hdrs, [fh |-> t.Entries[k], offset |-> e.offset]),
               hashed \o e.hashed)

\* The fingerprint of the Template that differs from t only in the bytes of its
\* prefix handle and content handles.
OtherFingerprint ==
    HashedFrom(1,
               IF t.Prefix # NilReader
               THEN add(EmptyMcr, OtherHandle(t.Prefix), t.PrefixSize) ELSE EmptyMcr,
               OtherContents, <<>>,
               IF t.Prefix # NilReader
               THEN <<[kind |-> "uint64", v |-> t.PrefixSize]>> ELSE <<>>)

\* C18: the fingerprint is a function of the prefix length, the local headers,
\* the data descriptors and the central directory only: the Template that
\* differs only in the bytes its content handles and prefix handle return gets
\* the same fingerprint, and building reads from no handle.
C18_FingerprintIgnoresContent ==
    /\ rd = NoRead
    /\ ret.status = "ok" =>
           /\ ret.ar.etag = OtherFingerprint
           /\ \A k \in 1..Len(ret.ar.etag) :
                  \/ ret.ar.etag[k].kind = "uint64" /\ ret.ar.etag[k].v = t.PrefixSize
                  \/ ret.ar.etag[k].kind \in {"header", "descriptor", "directory"}

\* An archive with a prefix and two entries with content.
C18_Witness ==
    /\ ret.status = "ok"
    /\ t.Prefix # NilReader
    /\ t.PrefixSize # Zero64
    /\ Len(t.Entries) = 2
    /\ Given(1).Content # NilReader /\ Given(1).CompressedSize64 # Zero64
    /\ Given(2).Content # NilReader /\ Given(2).CompressedSize64 # Zero64
    /\ Len(ret.ar.etag) = 6

(***************************************************************************)
(* Reads of a built archive.  Archive.ReadAtContext hands its context and  *)
(* arguments to ar.parts.ReadAtContext; reader i reads with the context    *)
(* Ctx(i).                                                                 *)
(***************************************************************************)
ReadLen == 3

ReadLens == {0, ReadLen}

\* Handles of the caller: one that implements ReadAtContext, one that is an
\* io.ReaderAt only, and an io.ReaderAt that stores nothing and reports no error.
AwareHandle == [kind |-> "ctx", r |-> [kind |-> "same", b |-> 5]]

PlainHandle == [kind |-> "same", b |-> 6]

ShortHandle == [kind |-> "raw", n |-> 0, err |-> NoErr]

ReadPrefixes ==
    {[Prefix |-> NilReader, PrefixSize |-> Zero64],
     [Prefix |-> AwareHandle, PrefixSize |-> I64(3)]}

ReadHeaders ==
    {FH(FileName, NoBytes, NoBytes, c, I64(2), I64(2), Deflate, SomeTime) :
        c \in {AwareHandle, PlainHandle, ShortHandle}}

ReadTemplates ==
    {[Prefix |-> p.Prefix, PrefixSize |-> p.PrefixSize, Entries |-> e,
      Comment |-> NoBytes, CreateTime |-> ZeroTime] :
        p \in ReadPrefixes, e \in {<<>>, <<1>>}}

\* The offsets the archive is read at: before its start, one byte before the
\* second and the third part, one byte before its end, and its end.
ArchiveOffsets(m) ==
    {Sub64(Zero64, I64(ReadLen)), Sub64(m.size, I64(1)), m.size}
    \cup {Sub64(m.parts[k].offset, I64(1)) : k \in 2..Min(3, Len(m.parts))}

InitRead ==
    /\ t \in ReadTemplates
    /\ heap \in [Range(t.Entries) -> ReadHeaders]
    /\ given = heap
    /\ pc = "start"
    /\ idx = 0
    /\ dir = <<>>
    /\ maxTime = ZeroTime
    /\ etagHash = <<>>
    /\ ret = NotReturned
    /\ mcr = EmptyMcr
    /\ added = <<>>
    /\ rd = NoRead
    /\ panicked = FALSE
    /\ call = NoCall
    /\ reads = NoReads
    /\ pb = NewBuilder
    /\ mrs = NoSeeker
    /\ seekLog = NoLog

\* Archive.ReadAtContext(ctx, p, off) is called and runs up to the loop.
ArchiveReadAtContext ==
    /\ pc = "done"
    /\ ret.status = "ok"
    /\ \E i \in Readers :
        /\ reads[i] = Idle
        /\ \E plen \in ReadLens, off \in ArchiveOffsets(mcr) :
            reads' = [reads EXCEPT ![i] = ReadBegin(mcr, Ctx(i), plen, off)]
    /\ UNCHANGED <<mcr, added, rd, panicked, call, seeker>>
    /\ UNCHANGED builder

\* Read i at the head of the loop goes into the next part's source, or returns.
ReadSourceOf(i) ==
    /\ reads[i].pc = "loop"
    /\ IF ~InLoop(mcr, reads[i])
       THEN reads' = [reads EXCEPT ![i] = ReadExit(reads[i])]
       ELSE \E part \in {mcr.parts[reads[i].partIndex + 1]} :
            \E off \in {LoopOffset(reads[i], part)} :
            \E end \in {endOffset(mcr, reads[i].partIndex)} :
            \E partRemainingBytes \in {Sub64(end, off)} :
            \E sizeToRead \in {SizeToRead(reads[i].rem, partRemainingBytes)} :
            \E inOff \in {Sub64(off, part.offset)} :
                reads' = [reads EXCEPT
                            ![i] = ReadIssue(reads[i], part, off, inOff, sizeToRead)]
    /\ UNCHANGED <<mcr, added, rd, panicked, call, seeker>>
    /\ UNCHANGED builder

ReadSource == \E i \in Readers : ReadSourceOf(i)

\* The source read i is in returns.
ReadReturnOf(i) ==
    /\ reads[i].pc = "source"
    /\ \E s \in {SourceReturns(mcr, reads[i])} :
       \E r \in {ReadResume(mcr, reads[i], s)} :
           reads' = [reads EXCEPT ![i] = r]
    /\ UNCHANGED <<mcr, added, rd, panicked, call, seeker>>
    /\ UNCHANGED builder

ReadReturn == \E i \in Readers : ReadReturnOf(i)

NextRead ==
    NAStart \/ NAEntry \/ NADirectory \/ ArchiveReadAtContext \/ ReadSource \/ ReadReturn

SpecRead == InitRead /\ [][NextRead]_vars

\* The calls of backing sources a read has made or is in, in order.
CallsOf(r) ==
    IF r.pc = "idle" THEN <<>>
    ELSE IF r.pc = "source" THEN Append(r.calls, r.pend)
    ELSE r.calls

\* The segment of part k (0-based) overlaps the range of len bytes at off.
Overlaps(m, k, off, len) ==
    /\ LtS64(m.parts[k + 1].offset, Add64(off, I64(len)))
    /\ LtS64(off, endOffset(m, k))

\* Every call of read i carries the right context: Ctx(i) for a source that
\* implements ReadAtContext, none for one that ignoreContext wraps.
ContextHanded(i) ==
    \A k \in 1..Len(CallsOf(reads[i])) :
        LET c == CallsOf(reads[i])[k]
            data == mcr.parts[c.part + 1].data
        IN  /\ data.kind = "ctx" => c.ctx = Ctx(i)
            /\ data.kind = "ignoreContext" => c.ctx = NoContext
            /\ data.kind \in {"ctx", "ignoreContext"}

\* The calls before the k-th filled the count asked of them.
FilledBefore(calls, k) == \A j \in 1..(k - 1) : calls[j].n = calls[j].len

\* C19 as stated: the context of the read is handed to every context-aware
\* source consulted, a source that is only an io.ReaderAt is read without it,
\* and every source consulted has a segment that overlaps the requested range.
C19_Original ==
    \A i \in Readers :
        /\ ContextHanded(i)
        /\ \A k \in 1..Len(CallsOf(reads[i])) :
               Overlaps(mcr, CallsOf(reads[i])[k].part, reads[i].off, reads[i].plen)

\* C19: the context given to Archive.ReadAtContext is the context handed to
\* every context-aware backing source consulted for the read, and a source that
\* implements only io.ReaderAt is read without a context; for a read at a
\* non-negative offset, a source is consulted only if its segment overlaps the
\* requested range, as long as every source consulted before it stored the
\* whole count asked of it.
C19_ContextToAwareSources ==
    \A i \in Readers :
        /\ ContextHanded(i)
        /\ \A k \in 1..Len(CallsOf(reads[i])) :
               (~IsNeg64(reads[i].off) /\ FilledBefore(CallsOf(reads[i]), k)) =>
                   Overlaps(mcr, CallsOf(reads[i])[k].part, reads[i].off, reads[i].plen)

\* Both readers are done with reads that went from the prefix, whose handle
\* takes a context, into the local header, which is read without one.
C19_Witness ==
    /\ \A i \in Readers :
        /\ reads[i].pc = "done"
        /\ reads[i].n = ReadLen
        /\ Len(reads[i].calls) = 2
        /\ reads[i].calls[1].ctx = Ctx(i)
        /\ reads[i].calls[2].ctx = NoContext
    /\ t.Prefix = AwareHandle

\* The read r returned what ReadAtContext returns for its arguments on the
\* archive as NewArchive returned it, through the same calls of the sources.
SameAsAlone(r, alone) ==
    /\ r.n = alone.n
    /\ r.err = alone.err
    /\ r.buf = alone.buf
    /\ r.panic = alone.panic
    /\ Len(r.calls) = Len(alone.calls)
    /\ \A k \in 1..Len(r.calls) :
           [part |-> r.calls[k].part, off |-> r.calls[k].off, len |-> r.calls[k].len,
            n |-> r.calls[k].n, err |-> r.calls[k].err] = alone.calls[k]

\* C20: once NewArchive has returned, with reads in flight in any interleaving
\* the segment list, the segment offsets and the total size stay those of the
\* archive returned; every read that has returned has returned what the same
\* read returns run alone; and a read that has not returned can take its next
\* step whatever source the other reads are in.
C20_ConcurrentReads ==
    (pc = "done" /\ ret.status = "ok") =>
        /\ mcr = ret.ar.parts
        /\ \A i \in Readers :
            /\ reads[i].pc = "done" =>
                   SameAsAlone(reads[i],
                               ReadAtContext(ret.ar.parts, reads[i].plen, reads[i].off))
            /\ reads[i].pc = "loop" => ENABLED ReadSourceOf(i)
            /\ reads[i].pc = "source" => ENABLED ReadReturnOf(i)

\* Reader 1 is still inside the source of a part that reader 2 has meanwhile
\* read from, on its way over two parts to a full buffer.
C20_Witness ==
    /\ reads[1].pc = "source"
    /\ reads[2].pc = "done"
    /\ reads[2].n = ReadLen
    /\ Len(reads[2].calls) = 2
    /\ \E k \in 1..2 : reads[2].calls[k].part = reads[1].pend.part
    /\ reads[1].off # reads[2].off

\* The offset the directory record rec tells: its 4-byte field, or with the
\* zip64 block the last 8 bytes of that block.
RecordTellsOffset(rec, offset) ==
    IF rec.zip64
    THEN /\ Drop(rec.Extra, StrLen(rec.Extra) - 8) = Str(Bytes64(offset))
         /\ rec.offset = IF LtU64(uint32max, offset) THEN uint32max ELSE U32(offset)
    ELSE /\ LtU64(offset, uint32max)
         /\ rec.offset = U32(offset)

\* The part of the archive at the offset of entry k is the local header of
\* entry k: its name, and its extra field with the timestamp blocks.
LocalHeaderAt(ar, k) ==
    /\ \E j \in 1..Len(ar.parts.parts) : ar.parts.parts[j].offset = dir[k].offset
    /\ ar.parts.parts[HeaderPart(ar, k)].data.r.kind = "blob"
    /\ ar.parts.parts[HeaderPart(ar, k)].data.r.blob.kind = "header"
    /\ ar.parts.parts[HeaderPart(ar, k)].data.r.blob.signature = fileHeaderSignature
    /\ ar.parts.parts[HeaderPart(ar, k)].data.r.blob.Name = Given(k).Name
    /\ StrLen(ar.parts.parts[HeaderPart(ar, k)].data.r.blob.Extra) = EncodedExtraLen(k)
    /\ Cat(Given(k).Extra,
           Drop(ar.parts.parts[HeaderPart(ar, k)].data.r.blob.Extra,
                StrLen(Given(k).Extra))) =
       ar.parts.parts[HeaderPart(ar, k)].data.r.blob.Extra

\* C21: for every entry i of an accepted Template the offset its directory
\* record tells is the total size of the composer when the entry is processed:
\* the prefix length plus the lengths of the local header, the content and the
\* data descriptor of the entries before i; the part of the archive at that
\* offset is the local header of entry i; and the offsets increase with i.
C21_RecordOffsets ==
    ret.status = "ok" =>
        \A k \in EntryPositions :
            /\ dir[k].offset = EntriesEnd(k - 1)
            /\ RecordTellsOffset(DirectoryOf(ret.ar).records[k], EntriesEnd(k - 1))
            /\ LocalHeaderAt(ret.ar, k)
            /\ \A j \in 1..(k - 1) : LtU64(dir[j].offset, dir[k].offset)

\* An archive with a prefix and two entries, the second at an offset of
\* 0xFFFFFFFF or more, behind the content of the first.
C21_Witness ==
    /\ ret.status = "ok"
    /\ Len(t.Entries) = 2
    /\ t.Prefix # NilReader /\ t.PrefixSize # Zero64
    /\ Given(1).Content # NilReader
    /\ GeqU64(dir[2].offset, uint32max)
    /\ DirectoryOf(ret.ar).records[2].zip64
    /\ ~DirectoryOf(ret.ar).records[1].zip64

\* An add of a size other than zero.
IsNonZero(a) == a.size # Zero64

\* The sum of the sizes added, as 64-bit values.
RECURSIVE SumOfSizes(_)
SumOfSizes(adds) ==
    IF adds = <<>> THEN Zero64 ELSE Add64(Head(adds).size, SumOfSizes(Tail(adds)))

\* C22 as stated: after any sequence of add calls with non-negative sizes the
\* first segment starts at offset 0, every segment starts where the one before
\* it ends and has the length that was added, the offsets increase strictly, no
\* segment has length zero (an add of size 0 changes nothing), and Size() is
\* the sum of the sizes added: no smaller than any of them, and the end offset
\* of the last segment.
C22_SegmentsContiguous ==
    (~panicked /\ \A k \in 1..Len(added) : ~IsNeg64(added[k].size)) =>
        /\ Len(mcr.parts) = Len(SelectSeq(added, IsNonZero))
        /\ Len(mcr.parts) > 0 => mcr.parts[1].offset = Zero64
        /\ \A k \in 1..Len(mcr.parts) :
               /\ mcr.parts[k].data = SelectSeq(added, IsNonZero)[k].data
               /\ endOffset(mcr, k - 1) =
                      Add64(mcr.parts[k].offset, SelectSeq(added, IsNonZero)[k].size)
               /\ LtS64(mcr.parts[k].offset, endOffset(mcr, k - 1))
        /\ mcr.size = SumOfSizes(added)
        /\ \A k \in 1..Len(added) : ~LtS64(mcr.size, added[k].size)
        /\ Len(mcr.parts) > 0 => endOffset(mcr, Len(mcr.parts) - 1) = mcr.size

\* The call c of a backing source asks for a non-empty range inside the
\* segment of its part.
CallInsideSegment(m, c) ==
    /\ c.len > 0
    /\ ~IsNeg64(c.off)
    /\ ~LtS64(Sub64(endOffset(m, c.part), m.parts[c.part + 1].offset),
              Add64(c.off, I64(c.len)))

\* The calls of the read start where the read starts in the first segment
\* consulted, and at 0 in every later one.
CallsStartWhereReadIs(m, r) ==
    \A k \in 1..Len(r.calls) :
        r.calls[k].off = IF k = 1
                         THEN Sub64(r.off, m.parts[r.calls[1].part + 1].offset)
                         ELSE Zero64

\* Part k (0-based) is the one segment that contains the offset off.
OnlySegmentWith(m, k, off) ==
    \A j \in 0..(Len(m.parts) - 1) :
        (~LtS64(off, m.parts[j + 1].offset) /\ LtS64(off, endOffset(m, j))) <=> j = k

\* C23 as stated: for every read, each call of a backing source asks for a
\* non-empty range inside the segment, starting at the requested offset minus
\* the segment's start in the first segment consulted and at 0 in every later
\* one, and the first segment consulted is the one that contains the offset.
C23_Original ==
    rd # NoRead =>
        /\ \A k \in 1..Len(rd.calls) : CallInsideSegment(mcr, rd.calls[k])
        /\ CallsStartWhereReadIs(mcr, rd)
        /\ Len(rd.calls) > 0 => OnlySegmentWith(mcr, rd.calls[1].part, rd.off)

\* C23: for every read at an offset that is not negative, each call of a
\* backing source asks for a non-empty range that lies inside the segment: its
\* in-segment start is >= 0, the requested offset minus the segment's start in
\* the first segment consulted and 0 in every later one, and start plus length
\* is at most the segment's length; the first segment consulted is the only
\* segment that contains the requested offset.
C23_CallsInsideSegments ==
    (rd # NoRead /\ ~IsNeg64(rd.off)) =>
        /\ \A k \in 1..Len(rd.calls) : CallInsideSegment(mcr, rd.calls[k])
        /\ CallsStartWhereReadIs(mcr, rd)
        /\ Len(rd.calls) > 0 => OnlySegmentWith(mcr, rd.calls[1].part, rd.off)

\* A read that starts inside the second of three segments, not at its start,
\* and goes on into the third.
C23_Witness ==
    /\ rd # NoRead
    /\ Len(mcr.parts) = 3
    /\ Len(rd.calls) = 2
    /\ rd.calls[1].part = 1
    /\ rd.calls[1].off # Zero64
    /\ rd.calls[1].len > 1
    /\ rd.calls[2].part = 2
    /\ rd.calls[2].off = Zero64
    /\ rd.n = rd.plen

\* The index in the parts of the Archive of the data descriptor of entry k:
\* behind the local header and, when there is one, the content.
DescriptorPart(ar, k) ==
    HeaderPart(ar, k) + (IF ContentLen(k) # Zero64 THEN 2 ELSE 1)

\* The data descriptor d holds the sizes cs and us in fields w bytes wide, the
\* compressed size before the uncompressed, and is 8 + 2 * w bytes long.
DescriptorHolds(d, cs, us, w) ==
    /\ d.kind = "descriptor"
    /\ d.signature = dataDescriptorSignature
    /\ d.len = 8 + 2 * w
    /\ d.compressedSize = cs
    /\ d.uncompressedSize = us
    /\ Len(d.layout) = 4
    /\ d.layout[3] = [field |-> "compressedSize", width |-> w]
    /\ d.layout[4] = [field |-> "uncompressedSize", width |-> w]
    /\ d.layout[1].width + d.layout[2].width + 2 * w = d.len

\* C24: for every entry that is not a directory the data descriptor is 24 bytes
\* long, with 8-byte sizes, and the entry's version needed is 4.5, if and only
\* if its compressed or its uncompressed size is >= 0xFFFFFFFF; otherwise it is
\* 16 bytes long with the sizes in 4-byte fields and the version needed is 2.0;
\* in both cases the sizes written are the entry's, compressed before
\* uncompressed.
C24_DataDescriptor ==
    ret.status = "ok" =>
        \A k \in EntryPositions :
            ~IsDirEntry(k) =>
                IF \/ GeqU64(Given(k).CompressedSize64, uint32max)
                   \/ GeqU64(Given(k).UncompressedSize64, uint32max)
                THEN /\ DescriptorHolds(
                            ret.ar.parts.parts[DescriptorPart(ret.ar, k)].data.r.blob,
                            Given(k).CompressedSize64, Given(k).UncompressedSize64, 8)
                     /\ heap[t.Entries[k]].ReaderVersion = zipVersion45
                     /\ DirectoryOf(ret.ar).records[k].ReaderVersion = zipVersion45
                ELSE /\ DescriptorHolds(
                            ret.ar.parts.parts[DescriptorPart(ret.ar, k)].data.r.blob,
                            Given(k).CompressedSize64, Given(k).UncompressedSize64, 4)
                     /\ heap[t.Entries[k]].ReaderVersion = zipVersion20
                     /\ DirectoryOf(ret.ar).records[k].ReaderVersion = zipVersion20

\* An archive of an entry of uncompressed size exactly 0xFFFFFFFF and a small
\* compressed size, after an entry with both sizes one below.
C24_Witness ==
    /\ ret.status = "ok"
    /\ Len(t.Entries) = 2
    /\ t.Entries[1] # t.Entries[2]
    /\ Given(1).CompressedSize64 = BelowUint32max
    /\ Given(1).UncompressedSize64 = BelowUint32max
    /\ Given(2).UncompressedSize64 = uint32max
    /\ Given(2).CompressedSize64 = I64(5)
    /\ ret.ar.parts.parts[DescriptorPart(ret.ar, 1)].data.r.blob.len = dataDescriptorLen
    /\ ret.ar.parts.parts[DescriptorPart(ret.ar, 2)].data.r.blob.len = dataDescriptor64Len

\* The bytes the records recs take in the directory.
RECURSIVE RecordsWritten(_)
RecordsWritten(recs) ==
    IF recs = <<>> THEN 0 ELSE RecordLen(Head(recs)) + RecordsWritten(Tail(recs))

\* The offset in the archive ar at which its directory starts.
DirectoryStart(ar) == ar.parts.parts[Len(ar.parts.parts)].offset

\* C25: whenever the zip64 end records are written, the zip64 end record is
\* immediately followed by its locator, the locator holds the archive offset at
\* which the zip64 end record starts (the start of the directory plus the bytes
\* of its records), the zip64 end record holds the true entry count, directory
\* size and directory offset, and the end record holds 0xFFFF, 0xFFFFFFFF and
\* 0xFFFFFFFF for count, size and offset.
C25_Zip64Locator ==
    (ret.status = "ok" /\ DirectoryOf(ret.ar).end.zip64) =>
        LET e == DirectoryOf(ret.ar).end
            size == RecordsWritten(DirectoryOf(ret.ar).records)
        IN  /\ Len(e.end64) = 1
            /\ Len(e.loc64) = 1
            /\ Len(e.written) = 3
            /\ e.written[1] = [record |-> "directory64End", len |-> directory64EndLen]
            /\ e.written[2] = [record |-> "directory64Loc", len |-> directory64LocLen]
            /\ e.written[3].record = "directoryEnd"
            /\ e.loc64[1].signature = directory64LocSignature
            /\ e.loc64[1].offset = Add64(DirectoryStart(ret.ar), I64(size))
            /\ e.end64[1].signature = directory64EndSignature
            /\ e.end64[1].records = I64(Len(t.Entries))
            /\ e.end64[1].size = I64(size)
            /\ e.end64[1].offset = DirectoryStart(ret.ar)
            /\ e.end.records = uint16max
            /\ e.end.size = uint32max
            /\ e.end.offset = uint32max
            /\ DirectoryOf(ret.ar).len =
                   size + directory64EndLen + directory64LocLen + directoryEndLen
                   + StrLen(t.Comment)

\* An archive of two entries whose directory starts beyond 0xFFFFFFFF, with
\* the zip64 end record and its locator behind the two records.
C25_Witness ==
    /\ ret.status = "ok"
    /\ Len(t.Entries) = 2
    /\ DirectoryOf(ret.ar).end.zip64
    /\ GeqU64(DirectoryStart(ret.ar), uint32max)
    /\ Len(DirectoryOf(ret.ar).records) = 2
    /\ DirectoryOf(ret.ar).end.loc64[1].offset # DirectoryStart(ret.ar)
    /\ DirectoryOf(ret.ar).end.end.offset = uint32max

\* day + month*32 + (year-1980)*512 and second/2 + minute*32 + hour*2048.
DosDate(tm) == tm.day + tm.month * 32 + (tm.year - 1980) * 512

DosTime(tm) == tm.second \div 2 + tm.minute * 32 + tm.hour * 2048

\* The local header and the directory record of entry k of the archive ar
\* both carry the date and the time.
BothRecordsCarry(ar, k, date, time) ==
    /\ ar.parts.parts[HeaderPart(ar, k)].data.r.blob.kind = "header"
    /\ ar.parts.parts[HeaderPart(ar, k)].data.r.blob.modifiedDate = date
    /\ ar.parts.parts[HeaderPart(ar, k)].data.r.blob.modifiedTime = time
    /\ DirectoryOf(ar).records[k].modifiedDate = date
    /\ DirectoryOf(ar).records[k].modifiedTime = time

\* C26 as stated: for every modification timestamp, the 16-bit MS-DOS date in
\* the local header and in the directory record of an entry equals
\* day + month*32 + (year-1980)*512 and the 16-bit MS-DOS time equals
\* second/2 + minute*32 + hour*2048, the same pair in both records.
C26_Original ==
    ret.status = "ok" =>
        \A k \in EntryPositions :
            BothRecordsCarry(ret.ar, k, DosDate(Given(k).Modified),
                             DosTime(Given(k).Modified))

\* C26, amended: the 16-bit MS-DOS date in the local header and in the
\* directory record of an entry equals day + month*32 + (year-1980)*512 reduced
\* modulo 2^16, which is that value itself for the years 1980 to 2107, and the
\* 16-bit MS-DOS time equals second/2 + minute*32 + hour*2048, the same pair in
\* both records.
C26_DosDateTime ==
    ret.status = "ok" =>
        \A k \in EntryPositions :
            /\ BothRecordsCarry(ret.ar, k, DosDate(Given(k).Modified) % Base,
                                DosTime(Given(k).Modified))
            /\ Given(k).Modified.year \in 1980..2107 =>
                   BothRecordsCarry(ret.ar, k, DosDate(Given(k).Modified),
                                    DosTime(Given(k).Modified))

\* An archive of an entry modified on 2017-10-31 21:11:57 and of an entry with
\* the zero Time, whose date wraps around to 2049-01-01.
C26_Witness ==
    /\ ret.status = "ok"
    /\ Len(t.Entries) = 2
    /\ Given(1).Modified = SomeTime
    /\ DirectoryOf(ret.ar).records[1].modifiedDate = 19295
    /\ DirectoryOf(ret.ar).records[1].modifiedTime = 43388
    /\ ret.ar.parts.parts[HeaderPart(ret.ar, 1)].data.r.blob.modifiedTime = 43388
    /\ Given(2).Modified = ZeroTime
    /\ DirectoryOf(ret.ar).records[2].modifiedDate = 35361
    /\ ret.ar.parts.parts[HeaderPart(ret.ar, 2)].data.r.blob.modifiedDate = 35361

(***************************************************************************)
(* The sequential multireadseeker (multireadseeker.go), on parts that are  *)
(* bytes.Readers (SpecSeek).  Offsets and lengths are small here, so plain *)
(* integers stand for the int64 fields.                                    *)
(***************************************************************************)
MaxSeekParts == 3

ErrUnexpectedEOF == "unexpected EOF"

SeekStart == 0

SeekCurrent == 1

SeekEnd == 2

NilContent == [kind |-> "nil"]

\* bytes.NewReader(data)
NewReader(data) == [kind |-> "bytes.Reader", s |-> data, i |-> 0]

\* content.Seek(offset, io.SeekStart) of a bytes.Reader
ReaderSeek(r, offset) ==
    IF offset < 0
    THEN [content |-> r, err |-> "bytes.Reader.Seek: negative position"]
    ELSE [content |-> [r EXCEPT !.i = offset], err |-> NoErr]

\* content.Read(b) of a bytes.Reader, len(b) = n
ReaderRead(r, n) ==
    IF r.i >= Len(r.s)
    THEN [content |-> r, n |-> 0, err |-> EOF, bytes |-> <<>>]
    ELSE [content |-> [r EXCEPT !.i = @ + Min(n, Len(r.s) - r.i)],
          n |-> Min(n, Len(r.s) - r.i),
          err |-> NoErr,
          bytes |-> SubSeq(r.s, r.i + 1, r.i + Min(n, Len(r.s) - r.i))]

\* pb.addReadSeeker(content, length)
addReadSeeker(b, content, length) ==
    IF length = 0 THEN [pb |-> b, panic |-> FALSE]
    ELSE IF content = NilContent THEN [pb |-> b, panic |-> TRUE]
    ELSE [pb |-> [parts |-> Append(b.parts, [offset |-> b.offset,
                                             length |-> length,
                                             content |-> content]),
                  offset |-> b.offset + length],
          panic |-> FALSE]

\* pb.addBytes(data)
addBytes(b, data) == addReadSeeker(b, NewReader(data), Len(data))

\* pb.createReadSeeker()
createReadSeeker(b) ==
    [created |-> TRUE, parts |-> b.parts, offset |-> 0, partIndex |-> 0,
     length |-> b.offset, seekValid |-> FALSE]

\* The end of a part that leaves seekValid as it is.
AfterPartSeekKept(m) == [m EXCEPT !.partIndex = @ + 1]

\* m.partIndex += 1; m.seekValid = false
AfterPart(m) == [m EXCEPT !.partIndex = @ + 1, !.seekValid = FALSE]

\* The rest of Read once the content is positioned: sk is what the Seek of the
\* content returned, or the content as it is when seekValid.
ReadPositioned(m, toRead, partRemaining, sk) ==
    IF sk.err # NoErr
    THEN [m |-> m, n |-> 0, err |-> sk.err, bytes |-> <<>>]
    ELSE LET r == ReaderRead(sk.content, toRead)
             err == IF r.err = EOF /\ r.n < toRead THEN ErrUnexpectedEOF ELSE r.err
             m1 == [m EXCEPT !.parts[m.partIndex + 1].content = r.content,
                             !.seekValid = TRUE,
                             !.offset = @ + r.n]
         IN  IF r.n = partRemaining
             THEN [m |-> AfterPart(m1), n |-> r.n,
                   err |-> IF err = EOF /\ m.partIndex < Len(m.parts) - 1
                           THEN NoErr ELSE err,
                   bytes |-> r.bytes]
             ELSE [m |-> m1, n |-> r.n, err |-> err, bytes |-> r.bytes]

\* m.Read(p) with len(p) = plen: the multireadseeker after the call, n, err
\* and the bytes put in p.
Read(m, plen) ==
    IF m.offset >= m.length
    THEN [m |-> m, n |-> 0, err |-> EOF, bytes |-> <<>>]
    ELSE LET currentPart == m.parts[m.partIndex + 1]
             partOffset == m.offset - currentPart.offset
             partRemaining == currentPart.length - partOffset
         IN  ReadPositioned(m, IF plen > partRemaining THEN partRemaining ELSE plen,
                            partRemaining,
                            IF ~m.seekValid
                            THEN ReaderSeek(currentPart.content, partOffset)
                            ELSE [content |-> currentPart.content, err |-> NoErr])

\* sort.Search(len(m.parts), f) for f(i) = m.parts[i].offset+m.parts[i].length
\* > newOffset: the binary search between i and j.
RECURSIVE SearchParts(_, _, _, _)
SearchParts(parts, newOffset, i, j) ==
    IF i >= j THEN i
    ELSE LET h == (i + j) \div 2
         IN  IF ~(parts[h + 1].offset + parts[h + 1].length > newOffset)
             THEN SearchParts(parts, newOffset, h + 1, j)
             ELSE SearchParts(parts, newOffset, i, h)

\* The multireadseeker positioned at newOffset.
SeekTo(m, newOffset) ==
    IF newOffset < 0
    THEN [m |-> m, pos |-> 0, err |-> "seek offset is before start"]
    ELSE [m |-> [m EXCEPT !.offset = newOffset,
                          !.partIndex = SearchParts(m.parts, newOffset, 0, Len(m.parts)),
                          !.seekValid = FALSE],
          pos |-> newOffset,
          err |-> NoErr]

\* m.Seek(offset, whence)
Seek(m, offset, whence) ==
    LET newOffset == CASE whence = SeekStart -> offset
                       [] whence = SeekCurrent -> m.offset + offset
                       [] whence = SeekEnd -> m.length + offset
                       [] OTHER -> 0
    IN  SeekTo(m, IF newOffset > m.length THEN m.length ELSE newOffset)

\* The data of the part added as the j-th: n bytes that tell the part and the
\* place in it.
PartData(j, n) == [x \in 1..n |-> 10 * j + x]

\* len(data) of the addBytes calls.
DataLens == 0..2

\* The parts added as the j-th by addReadSeeker itself: without content, with a
\* content of one byte less than the length, with a content of one byte more.
OtherParts(j) ==
    {[content |-> NilContent, length |-> 0],
     [content |-> NilContent, length |-> 1],
     [content |-> NewReader(PartData(j, 1)), length |-> 2],
     [content |-> NewReader(PartData(j, 2)), length |-> 1]}

\* The Seek calls on m: to every position from one before the start to one
\* past the end, by each whence, and with a whence that is none of the three.
SeekArgs(m) ==
    {[whence |-> SeekStart, offset |-> o] : o \in -1..(m.length + 1)}
    \cup {[whence |-> SeekCurrent, offset |-> o] : o \in {0 - m.length - 1, -1, 0, 1}}
    \cup {[whence |-> SeekEnd, offset |-> o] : o \in {0 - m.length - 1, 0 - m.length, -1, 0, 1}}
    \cup {[whence |-> 3, offset |-> 1]}

\* len(p) of the Read calls.
BufLens == 0..3

InitSeek ==
    /\ pb = NewBuilder
    /\ mrs = NoSeeker
    /\ seekLog = NoLog
    /\ mcr = EmptyMcr
    /\ added = <<>>
    /\ rd = NoRead
    /\ panicked = FALSE
    /\ t = NoTemplate
    /\ heap = <<>>
    /\ given = <<>>
    /\ pc = "idle"
    /\ idx = 0
    /\ dir = <<>>
    /\ maxTime = ZeroTime
    /\ etagHash = <<>>
    /\ ret = NotReturned
    /\ call = NoCall
    /\ reads = NoReads

\* pb.addBytes(data), as the tests build their parts.
AddBytes ==
    /\ ~mrs.created
    /\ ~panicked
    /\ Len(pb.parts) < MaxSeekParts
    /\ \E n \in DataLens :
           pb' = addBytes(pb, PartData(Len(pb.parts) + 1, n)).pb
    /\ UNCHANGED <<mrs, seekLog, mcr, added, rd, panicked, call, reads>>
    /\ UNCHANGED builder

\* pb.addReadSeeker(content, length) with a nil content, or with a length that
\* is not the number of bytes the content holds.
AddReadSeeker ==
    /\ ~mrs.created
    /\ ~panicked
    /\ Len(pb.parts) < MaxSeekParts
    /\ \E x \in OtherParts(Len(pb.parts) + 1) :
           \E a \in {addReadSeeker(pb, x.content, x.length)} :
               /\ pb' = a.pb
               /\ panicked' = a.panic
    /\ UNCHANGED <<mrs, seekLog, mcr, added, rd, call, reads>>
    /\ UNCHANGED builder

\* mrs := pb.createReadSeeker()
CreateReadSeeker ==
    /\ ~mrs.created
    /\ ~panicked
    /\ mrs' = createReadSeeker(pb)
    /\ seekLog' = NoLog
    /\ UNCHANGED <<pb, mcr, added, rd, panicked, call, reads>>
    /\ UNCHANGED builder

\* mrs.Seek(offset, whence)
MRSSeek ==
    /\ mrs.created
    /\ \E x \in SeekArgs(mrs) :
           \E s \in {Seek(mrs, x.offset, x.whence)} :
               /\ mrs' = s.m
               /\ seekLog' = [k |-> IF s.err = NoErr THEN s.pos ELSE seekLog.k,
                              out |-> IF s.err = NoErr THEN <<>> ELSE seekLog.out,
                              last |-> [op |-> "Seek", pos |-> s.pos, err |-> s.err]]
    /\ UNCHANGED <<pb, mcr, added, rd, panicked, call, reads>>
    /\ UNCHANGED builder

\* mrs.Read(p)
MRSRead ==
    /\ mrs.created
    /\ \E plen \in BufLens :
           \E r \in {Read(mrs, plen)} :
               /\ mrs' = r.m
               /\ seekLog' = [k |-> seekLog.k,
                              out |-> seekLog.out \o r.bytes,
                              last |-> [op |-> "Read", asked |-> plen > 0, at |-> mrs.offset,
                                        n |-> r.n, err |-> r.err, bytes |-> r.bytes]]
    /\ UNCHANGED <<pb, mcr, added, rd, panicked, call, reads>>
    /\ UNCHANGED builder

NextSeek ==
    \/ AddBytes
    \/ AddReadSeeker
    \/ CreateReadSeeker
    \/ MRSSeek
    \/ MRSRead

SpecSeek == InitSeek /\ [][NextSeek]_vars

\* The bytes of a part: the first length bytes of its content, or all of them
\* when the content holds fewer.
PartBytes(p) == SubSeq(p.content.s, 1, Min(p.length, Len(p.content.s)))

\* The concatenation of the parts.
RECURSIVE Concatenation(_)
Concatenation(parts) ==
    IF parts = <<>> THEN <<>>
    ELSE PartBytes(Head(parts)) \o Concatenation(Tail(parts))

\* Every part's content holds at least the bytes of the part's length.
ContentsHoldLengths(parts) ==
    \A j \in 1..Len(parts) : Len(parts[j].content.s) >= parts[j].length

\* partIndex designates the part containing the offset, or len(parts) at the end.
PartIndexDesignates(m) ==
    IF m.offset >= m.length
    THEN m.partIndex = Len(m.parts)
    ELSE /\ m.partIndex < Len(m.parts)
         /\ m.parts[m.partIndex + 1].offset <= m.offset
         /\ m.offset < m.parts[m.partIndex + 1].offset + m.parts[m.partIndex + 1].length

\* What the Seeks and Reads so far show of the multireadseeker m: the Reads
\* since the last Seek, which went to k, returned the bytes from k to the
\* offset; the last Read failed only with io.EOF, and only with nothing read at
\* the end; it read something when asked to and not at the end, and from one
\* part only.
ReadsSequentially(m, l) ==
    /\ l.k \in 0..m.length
    /\ m.offset \in l.k..m.length
    /\ l.out = SubSeq(Concatenation(m.parts), l.k + 1, m.offset)
    /\ PartIndexDesignates(m)
    /\ l.last.op = "Read" =>
           /\ l.last.err \in {NoErr, EOF}
           /\ l.last.err = EOF <=> l.last.at >= m.length
           /\ l.last.err = EOF => l.last.n = 0 /\ l.out = SubSeq(Concatenation(m.parts),
                                                                 l.k + 1, m.length)
           /\ (l.last.asked /\ l.last.at < m.length) => l.last.n > 0
           /\ l.last.n = Len(l.last.bytes)
           /\ l.last.n > 0 =>
                  \E j \in 1..Len(m.parts) :
                      /\ m.parts[j].offset <= l.last.at
                      /\ l.last.at + l.last.n <= m.parts[j].offset + m.parts[j].length
                      /\ \A x \in 1..l.last.n : l.last.bytes[x] \div 10 = j

\* C27 as stated: for the multireadseeker built from any list of parts, after
\* Seek calls that end at position k, 0 <= k <= total length, the Reads until
\* EOF return exactly the bytes from k on of the concatenation of the parts,
\* with no error other than the final EOF; each Read returns bytes of one part
\* only, and partIndex always designates the part containing the current
\* offset, or len(parts) at the end.
C27_Original ==
    mrs.created => ReadsSequentially(mrs, seekLog)

\* C27, amended: the same for the multireadseeker built from any list of parts
\* whose contents hold at least as many bytes as the lengths they were added
\* with.
C27_SequentialReads ==
    (mrs.created /\ ContentsHoldLengths(mrs.parts)) => ReadsSequentially(mrs, seekLog)

\* Three parts of 1, 2 and 2 bytes, a Seek to the second part, and Reads that
\* reached the end: the last one returned io.EOF after the four bytes from
\* position 1 on were read.
C27_Witness ==
    /\ mrs.created
    /\ Len(mrs.parts) = 3
    /\ ContentsHoldLengths(mrs.parts)
    /\ mrs.parts[1].length = 1
    /\ mrs.length = 5
    /\ seekLog.k = 1
    /\ seekLog.last.op = "Read"
    /\ seekLog.last.err = EOF
    /\ seekLog.out = <<21, 22, 31, 32>>
    /\ mrs.partIndex = 3

\* C28: in every central directory record of a built archive the 16-bit extra
\* length field equals the number of extra bytes written after the record's
\* name (the entry's extra after normalization, plus the 28-byte zip64 block
\* when one is appended), also for zip64 entries whose extra was just within
\* the 65535-byte limit when the local header was encoded.
C28_ExtraLengthField ==
    ret.status = "ok" =>
        \A k \in EntryPositions :
            DirectoryOf(ret.ar).records[k].extraLen =
                StrLen(DirectoryOf(ret.ar).records[k].Extra)

\* The same for the records whose extra bytes fit the 16-bit field.
ExtraLengthFieldWhenFits ==
    ret.status = "ok" =>
        \A k \in EntryPositions :
            StrLen(DirectoryOf(ret.ar).records[k].Extra) <= uint16max =>
                DirectoryOf(ret.ar).records[k].extraLen =
                    StrLen(DirectoryOf(ret.ar).records[k].Extra)

(***************************************************************************)
(* NewArchive on Templates whose sizes are negative as int64, or add up to *)
(* more than an int64 holds (SpecSizes).                                   *)
(***************************************************************************)
\* 2^63, which int64(entry.CompressedSize64) turns into the least int64.
Uint63 == <<0, 0, 0, Half>>

SizePrefixes ==
    {[Prefix |-> NilReader, PrefixSize |-> MinusOne64],
     [Prefix |-> [kind |-> "same", b |-> 1], PrefixSize |-> MinusOne64],
     [Prefix |-> [kind |-> "same", b |-> 1], PrefixSize |-> I64(9)],
     [Prefix |-> [kind |-> "same", b |-> 1], PrefixSize |-> Huge64]}

SizeHeaders ==
    {FH(FileName, NoBytes, NoBytes, Content, I64(5), I64(9), Deflate, SomeTime),
     FH(FileName, NoBytes, NoBytes, Content, Huge64, Huge64, Store, SomeTime),
     FH(FileName, NoBytes, NoBytes, Content, Uint63, I64(9), Deflate, SomeTime),
     FH(FileName, NoBytes, NoBytes, NilReader, Uint63, I64(9), Deflate, SomeTime)}

SizeTemplates ==
    {[Prefix |-> px.Prefix, PrefixSize |-> px.PrefixSize, Entries |-> es,
      Comment |-> NoBytes, CreateTime |-> ZeroTime] :
        px \in SizePrefixes, es \in EntryLists}

InitSizes ==
    /\ t \in SizeTemplates
    /\ heap \in [Range(t.Entries) -> SizeHeaders]
    /\ given = heap
    /\ pc = "start"
    /\ idx = 0
    /\ dir = <<>>
    /\ maxTime = ZeroTime
    /\ etagHash = <<>>
    /\ ret = NotReturned
    /\ mcr = EmptyMcr
    /\ added = <<>>
    /\ rd = NoRead
    /\ panicked = FALSE
    /\ call = NoCall
    /\ reads = NoReads
    /\ pb = NewBuilder
    /\ mrs = NoSeeker
    /\ seekLog = NoLog

SpecSizes == InitSizes /\ [][Next]_vars

\* C29: NewArchive reports every invalid Template as a returned error and
\* never panics: a Template with a Prefix and a negative PrefixSize, or with an
\* entry with content and CompressedSize64 >= 2^63, yields an error and not a
\* panic, and the total size never becomes negative.
C29_ErrorsNotPanics ==
    /\ ~panicked
    /\ (pc = "done" /\ t.Prefix # NilReader /\ IsNeg64(t.PrefixSize)) =>
           ret.status = "error"
    /\ (pc = "done" /\ \E k \in 1..idx : /\ Given(k).Content # NilReader
                                         /\ ~HasSuffixSlash(Given(k).Name)
                                         /\ IsNeg64(Given(k).CompressedSize64)) =>
           ret.status = "error"
    /\ ~IsNeg64(mcr.size)

\* NewArchive returned an Archive of negative size.
NegativeArchive ==
    /\ ret.status = "ok"
    /\ IsNeg64(ret.ar.parts.size)

\* The extra bytes got are want, or want followed by one block of blockLen bytes.
FollowedByAtMostOne(got, want, blockLen) ==
    /\ StrLen(got) \in {StrLen(want), StrLen(want) + blockLen}
    /\ Cat(want, Drop(got, StrLen(want))) = got

\* The extra bytes of entry k: its local header carries the caller's Extra and
\* one extended-timestamp block, its directory record those bytes and at most
\* one zip64 block, and that is what NewArchive leaves in the FileHeader.
ExtraBlocksOnce(ar, k) ==
    /\ ar.parts.parts[HeaderPart(ar, k)].data.r.blob.kind = "header"
    /\ ar.parts.parts[HeaderPart(ar, k)].data.r.blob.Extra =
           Cat(Given(k).Extra, ExtTimeBlock(Given(k).Modified))
    /\ FollowedByAtMostOne(DirectoryOf(ar).records[k].Extra,
                           ar.parts.parts[HeaderPart(ar, k)].data.r.blob.Extra,
                           Zip64BlockLen)
    /\ FollowedByAtMostOne(heap[t.Entries[k]].Extra,
                           ar.parts.parts[HeaderPart(ar, k)].data.r.blob.Extra,
                           Zip64BlockLen)

\* C30: during one NewArchive call the builder appends to the extra field of
\* every entry exactly one 9-byte extended-timestamp block and at most one
\* 28-byte zip64 block, and the extra bytes of the entry's directory record
\* are those of its local header followed by at most one zip64 block, also
\* when the same FileHeader is listed more than once in Entries.
C30_ExtraBlocksOnce ==
    ret.status = "ok" =>
        \A k \in EntryPositions : ExtraBlocksOnce(ret.ar, k)

\* The same for the entries whose FileHeader is listed once.
ExtraBlocksOnceWhenListedOnce ==
    ret.status = "ok" =>
        \A k \in EntryPositions :
            (\A j \in EntryPositions : t.Entries[j] = t.Entries[k] => j = k) =>
                ExtraBlocksOnce(ret.ar, k)

====
